---- MODULE Spec2Model ----
(***************************************************************************)
(* BHEESHMA runtime dependency monitor: the interception layer (envHook,   *)
(* fsHook, netHook, childProcHook, httpHook), the attribution resolver,    *)
(* the signal buffer of src/index.js and the trust scoring engine.         *)
(***************************************************************************)
EXTENDS Integers, Sequences, FiniteSets, TLC

\* ------------------------------------------------------------------ bounds

\* init() calls that install (each creates fresh wrapper objects).
MaxInits == 2
\* Signals the buffer may hold.
MaxSignals == 2
\* Nested wrapper invocations before the engine raises RangeError.
MaxCallDepth == 3
\* Longest signal list handed to the scoring engine: of the heaviest signal
\* kinds, and of all kinds.
MaxScoreLen == 7
MaxMixLen == 3

\* Arrays returned by getSignals that holders keep.
MaxLists == 2

\* Longest signal list handed to the pattern analyzer.
MaxPatternLen == 3
\* Longest buffer handed to the report.
MaxReportLen == 2

\* Frames V8 keeps in Error().stack (Error.stackTraceLimit, default 10).
StackTraceLimit == 10

\* ------------------------------------------------- the wrapped API surface

READ_FUNCTIONS ==
    <<"readFile", "readFileSync", "readdir", "readdirSync", "readlink",
      "readlinkSync", "createReadStream">>

WRITE_FUNCTIONS ==
    <<"writeFile", "writeFileSync", "appendFile", "appendFileSync", "mkdir",
      "mkdirSync", "rmdir", "rmdirSync", "unlink", "unlinkSync", "rename",
      "renameSync", "createWriteStream">>

\* The order in which fsHook.install wraps: reads, then writes.
FS_FUNCTIONS == READ_FUNCTIONS \o WRITE_FUNCTIONS

\* The order in which netHook.install wraps.
NET_FUNCTIONS == <<"net.connect", "http.request", "https.request">>

\* The order in which childProcHook.install wraps.
CP_FUNCTIONS ==
    <<"exec", "execSync", "execFile", "execFileSync", "spawn", "spawnSync",
      "fork">>

Range(s) == {s[i] : i \in 1..Len(s)}

FsNames == Range(FS_FUNCTIONS)
NetNames == Range(NET_FUNCTIONS)
CpNames == Range(CP_FUNCTIONS)
EnvName == "process.env"
AllNames == FsNames \cup NetNames \cup CpNames \cup {EnvName}

HookNames == <<"envHook", "fsHook", "netHook", "childProcHook">>

\* Function references. Orig(n) is the platform's own function (or the real
\* environment object); Wrap(h, n, g) is the wrapper object that hook h
\* created for n during install round g; Nil is null/undefined.
Orig(n) == [kind |-> "orig", hook |-> "none", name |-> n, gen |-> 0]
Wrap(h, n, g) == [kind |-> "wrap", hook |-> h, name |-> n, gen |-> g]
Nil == [kind |-> "nil", hook |-> "none", name |-> "none", gen |-> 0]

\* ------------------------------------------------------------ environment

\* Properties of the host that cannot be assigned (frozen or non-configurable):
\* an assignment to one raises TypeError in strict mode.
FrozenChoices ==
    { {},
      {"rename"},
      {"https.request"},
      {"process.env", "rename", "https.request", "spawn"} }

\* Where the monitor's own source files live.
LibDir == <<"app", "lib", "bheeshma">>
MonitorDirs == { LibDir, <<"app", "node_modules", "bheeshma">> }

VARIABLES
    frozen,          \* host: names whose assignment raises
    disk,            \* host: package directory -> version its rewritten manifest gives, or "removed"
    monitorDir,      \* host: directory of the monitor's sources
    binding,         \* host: name -> the function currently bound to it
    captured,        \* wrapper -> the reference its closure captured
    envInstalled,    \* envHook.isHookInstalled
    fsInstalled,     \* fsHook.isHookInstalled
    fsOrig,          \* fsHook.originalFunctions
    netInstalled,    \* netHook.isHookInstalled
    netOrig,         \* netHook.originalFunctions
    cpInstalled,     \* childProcHook.isHookInstalled
    cpOrig,          \* childProcHook.originalFunctions
    httpOrig,        \* httpHook.originalHttpRequest / originalHttpsRequest
    signalsArray,    \* httpHook.signalsArray: "null" or "signals"
    hooksInstalled,  \* index.hooksInstalled
    signals,         \* index.signals, the signal buffer
    packageCache,    \* resolver.packageCache: package dirs with a cached manifest
    gen,             \* install rounds so far (names the wrapper objects)
    held,            \* a reference third-party code took from the API surface
    snap,            \* the bindings as they were before the last installing init
    last,            \* what the last operation was and what it returned
    phase,           \* "fresh", or whether init or teardown was called last
    pending,         \* "running" while a monitor() call awaits its function
    lists,           \* the arrays getSignals has returned, as their holders have them
    threats,         \* result of the last analyzePatterns call
    userConfig,      \* host: the configuration object the application supplies
    validation,      \* result of the last validateConfig call
    loaded,          \* result of the last configuration loader call
    report,          \* the last JSON report generateReport built
    scores           \* the last result of getTrustScores

vars == <<frozen, disk, monitorDir, binding, captured, envInstalled, fsInstalled,
          fsOrig, netInstalled, netOrig, cpInstalled, cpOrig, httpOrig,
          signalsArray, hooksInstalled, signals, packageCache, gen, held,
          snap, last, phase, pending, lists, threats, userConfig,
          validation, loaded, report, scores>>

hostVars == <<frozen, disk, monitorDir, userConfig>>
hookVars == <<binding, captured, envInstalled, fsInstalled, fsOrig,
              netInstalled, netOrig, cpInstalled, cpOrig, gen, snap>>
httpVars == <<httpOrig, signalsArray>>

\* --------------------------------------------------------------- installs

Idx(seq, n) == CHOOSE i \in 1..Len(seq) : seq[i] = n

\* The index of the first name of seq whose assignment raises; Len+1 if none.
FailIdx(seq) ==
    IF \E i \in 1..Len(seq) : seq[i] \in frozen
    THEN CHOOSE i \in 1..Len(seq) :
            /\ seq[i] \in frozen
            /\ \A j \in 1..(i - 1) : seq[j] \notin frozen
    ELSE Len(seq) + 1

\* hookFunction applied along seq until an assignment raises: the original
\* is stored first, then the binding is replaced.
HookAll(hook, seq, b, orig, g) ==
    LET k == FailIdx(seq)
        names == Range(seq) IN
    [ ok |-> k > Len(seq),
      orig |-> [n \in names |-> IF Idx(seq, n) <= k THEN b[n] ELSE orig[n]],
      binding |-> [n \in AllNames |->
                     IF n \in names /\ Idx(seq, n) < k
                     THEN Wrap(hook, n, g) ELSE b[n]] ]

\* Restores along seq every stored original; an assignment that raises ends
\* the loop inside the catch.
RestoreAll(seq, b, orig) ==
    LET stored == [i \in 1..Len(seq) |-> orig[seq[i]] # Nil]
        bad == {i \in 1..Len(seq) : stored[i] /\ seq[i] \in frozen}
        k == IF bad = {} THEN Len(seq) + 1
             ELSE CHOOSE i \in bad : \A j \in bad : i <= j
        names == Range(seq) IN
    [ ok |-> bad = {},
      binding |-> [n \in AllNames |->
                     IF n \in names /\ Idx(seq, n) < k /\ orig[n] # Nil
                     THEN orig[n] ELSE b[n]] ]

envHook_install(b, cap, g) ==
    IF envInstalled
    THEN [ok |-> TRUE, binding |-> b, captured |-> cap, installed |-> TRUE]
    ELSE IF EnvName \in frozen
    THEN [ok |-> FALSE, binding |-> b, captured |-> cap, installed |-> FALSE]
    ELSE [ok |-> TRUE,
          binding |-> [b EXCEPT ![EnvName] = Wrap("env", EnvName, g)],
          captured |-> (Wrap("env", EnvName, g) :> b[EnvName]) @@ cap,
          installed |-> TRUE]

envHook_uninstall ==
    [ok |-> TRUE, installed |-> FALSE]

fsHook_install(b, g) ==
    IF fsInstalled
    THEN [ok |-> TRUE, binding |-> b, orig |-> fsOrig, installed |-> TRUE]
    ELSE LET r == HookAll("fs", FS_FUNCTIONS, b, fsOrig, g) IN
         [ok |-> r.ok, binding |-> r.binding, orig |-> r.orig,
          installed |-> r.ok]

\* fsHook.uninstall without its "not installed" return.
fsHook_restore(b) ==
    LET r == RestoreAll(FS_FUNCTIONS, b, fsOrig) IN
    [ok |-> r.ok, binding |-> r.binding, installed |-> ~r.ok]

fsHook_uninstall(b) ==
    IF ~fsInstalled
    THEN [ok |-> TRUE, binding |-> b, installed |-> FALSE]
    ELSE LET r == RestoreAll(FS_FUNCTIONS, b, fsOrig) IN
         [ok |-> r.ok, binding |-> r.binding, installed |-> ~r.ok]

netHook_install(b, g) ==
    IF netInstalled
    THEN [ok |-> TRUE, binding |-> b, orig |-> netOrig, installed |-> TRUE]
    ELSE LET r == HookAll("net", NET_FUNCTIONS, b, netOrig, g) IN
         [ok |-> r.ok, binding |-> r.binding, orig |-> r.orig,
          installed |-> r.ok]

netHook_uninstall(b) ==
    IF ~netInstalled
    THEN [ok |-> TRUE, binding |-> b, installed |-> FALSE]
    ELSE LET r == RestoreAll(NET_FUNCTIONS, b, netOrig) IN
         [ok |-> r.ok, binding |-> r.binding, installed |-> ~r.ok]

childProcHook_install(b, g) ==
    IF cpInstalled
    THEN [ok |-> TRUE, binding |-> b, orig |-> cpOrig, installed |-> TRUE]
    ELSE LET r == HookAll("cp", CP_FUNCTIONS, b, cpOrig, g) IN
         [ok |-> r.ok, binding |-> r.binding, orig |-> r.orig,
          installed |-> r.ok]

childProcHook_uninstall(b) ==
    IF ~cpInstalled
    THEN [ok |-> TRUE, binding |-> b, installed |-> FALSE]
    ELSE LET r == RestoreAll(CP_FUNCTIONS, b, cpOrig) IN
         [ok |-> r.ok, binding |-> r.binding, installed |-> ~r.ok]

HTTP_FUNCTIONS == <<"http.request", "https.request">>

\* One "if (!original) { original = lib.request; lib.request = hook }" of
\* httpHook.install; st.ok is FALSE once an assignment has raised.
HttpHookStep(st, n, g) ==
    IF ~st.ok \/ st.orig[n] # Nil THEN st
    ELSE IF n \in frozen
    THEN [st EXCEPT !.ok = FALSE, !.orig[n] = st.binding[n]]
    ELSE [ok |-> TRUE,
          binding |-> [st.binding EXCEPT ![n] = Wrap("http", n, g)],
          orig |-> [st.orig EXCEPT ![n] = st.binding[n]],
          captured |-> (Wrap("http", n, g) :> st.binding[n]) @@ st.captured]

\* One "if (original) { lib.request = original; original = null }" of
\* httpHook.uninstall.
HttpUnhookStep(st, n) ==
    IF ~st.ok \/ st.orig[n] = Nil THEN st
    ELSE IF n \in frozen THEN [st EXCEPT !.ok = FALSE]
    ELSE [ok |-> TRUE,
          binding |-> [st.binding EXCEPT ![n] = st.orig[n]],
          orig |-> [st.orig EXCEPT ![n] = Nil],
          captured |-> st.captured]

\* ------------------------------------------------------------ attribution

AppFile == <<"app", "index.js">>

\* The call stack of the code that calls into the API surface, top first.
CallerStack(caller) ==
    CASE caller = "app" -> <<AppFile>>
      [] caller = "bar" -> <<<<"app", "node_modules", "bar", "index.js">>, AppFile>>
      [] caller = "nested" ->
            <<<<"app", "node_modules", "a", "node_modules", "b", "index.js">>,
              AppFile>>
      [] OTHER -> <<<<"app", "node_modules", "ghost", "index.js">>, AppFile>>

HookFile(h) == monitorDir \o <<"src", "hooks", h>>
ResolverFile == monitorDir \o <<"src", "attribution", "resolver.js">>

\* The package.json files as the packages were installed.
InstalledManifest(dir) ==
    CASE dir = <<"app", "node_modules", "bar">> ->
            [state |-> "ok", version |-> "1.0.0"]
      [] dir = <<"app", "node_modules", "bheeshma">> ->
            [state |-> "ok", version |-> "2.1.0"]
      [] dir = <<"app", "node_modules", "a">> ->
            [state |-> "ok", version |-> "3.0.0"]
      [] dir = <<"app", "node_modules", "a", "node_modules", "b">> ->
            [state |-> "ok", version |-> "4.0.0"]
      [] dir = <<"app", "node_modules", "noversion">> ->
            [state |-> "ok", version |-> ""]
      [] dir = <<"app", "node_modules", "broken">> ->
            [state |-> "malformed", version |-> ""]
      [] OTHER -> [state |-> "missing", version |-> ""]

\* The files on disk: a package directory's package.json, as installed
\* unless the host has rewritten or removed it since.
ManifestOnDisk(dir) ==
    IF dir \notin DOMAIN disk THEN InstalledManifest(dir)
    ELSE IF disk[dir] = "removed" THEN [state |-> "missing", version |-> ""]
    ELSE [state |-> "ok", version |-> disk[dir]]

\* path.join(packageDir, 'package.json'), as the string fs is given.
ManifestPath(dir) == "/node_modules/" \o dir[Len(dir)] \o "/package.json"

NoAttr == [name |-> <<>>, version |-> "", path |-> <<>>]

\* filePath.indexOf('node_modules'): the first segment holding it, 0 if none.
NodeModulesIndex(path) ==
    IF \E i \in 1..Len(path) : path[i] = "node_modules"
    THEN CHOOSE i \in 1..Len(path) :
            /\ path[i] = "node_modules"
            /\ \A j \in 1..(i - 1) : path[j] # "node_modules"
    ELSE 0

IsScope(seg) == seg \in {"@acme"}

\* The name and directory extractPackageInfo derives from a path, before it
\* reads the manifest; ok is FALSE where the code raises and returns null.
PackageOfPath(path, k) ==
    LET parts == SubSeq(path, k + 1, Len(path)) IN
    IF Len(parts) = 0 THEN [ok |-> FALSE, name |-> <<>>, dir |-> <<>>]
    ELSE IF IsScope(parts[1])
    THEN IF Len(parts) < 2 THEN [ok |-> FALSE, name |-> <<>>, dir |-> <<>>]
         ELSE [ok |-> TRUE, name |-> <<parts[1], parts[2]>>,
               dir |-> SubSeq(path, 1, k) \o <<parts[1], parts[2]>>]
    ELSE [ok |-> TRUE, name |-> <<parts[1]>>,
          dir |-> SubSeq(path, 1, k) \o <<parts[1]>>]

\* ------------------------------------------------------------ signals

SignalTypes == {"ENV_ACCESS", "FS_READ", "FS_WRITE", "SHELL_EXEC", "NET_CONNECT"}

\* createSignal: an unknown type raises; an empty package name becomes null.
createSignal(type, op, detail, packageName, packageVersion) ==
    [ok |-> type \in SignalTypes,
     signal |-> [type |-> type, package |-> packageName,
                 version |-> packageVersion, op |-> op, detail |-> detail]]

\* ------------------------------------------------------------- commands

\* A command line is a sequence of words separated by single spaces.  A word
\* is flag, or flag=val when eq holds; the lengths are in characters, and
\* marker says that the truncation marker follows the word directly.
Word(flag, flagLen, eq, val, valLen) ==
    [flag |-> flag, flagLen |-> flagLen, eq |-> eq, val |-> val,
     valLen |-> valLen, marker |-> FALSE]

Plain(text, n) == Word(text, n, FALSE, "", 0)

WordLen(w) == w.flagLen + (IF w.eq THEN 1 + w.valLen ELSE 0)

\* String.prototype.length of the joined words.
RECURSIVE Length(_)
Length(words) ==
    IF words = <<>> THEN 0
    ELSE WordLen(Head(words))
         + (IF Tail(words) = <<>> THEN 0 ELSE 1 + Length(Tail(words)))

\* Array.prototype.join(' ') of argument strings, each a sequence of words.
RECURSIVE Join(_)
Join(argsArray) ==
    IF argsArray = <<>> THEN <<>> ELSE Head(argsArray) \o Join(Tail(argsArray))

TRUNCATE_AT == 200
TruncatedMarker == Plain("...[TRUNCATED]", 14)

\* The first n characters of a word, n < WordLen(w): a piece of the flag, the
\* flag with its "=", or the flag with the start of the value.
Prefix(w, n) ==
    IF n < w.flagLen THEN Plain("<part>", n)
    ELSE IF n = w.flagLen THEN Plain(w.flag, n)
    ELSE Word(w.flag, w.flagLen, TRUE,
              IF n = w.flagLen + 1 THEN "" ELSE w.val, n - w.flagLen - 1)

\* String.prototype.substring(0, n) of the joined words.
RECURSIVE Substring(_, _)
Substring(words, n) ==
    IF words = <<>> \/ n <= 0 THEN <<>>
    ELSE IF WordLen(Head(words)) <= n
         THEN <<Head(words)>>
              \o Substring(Tail(words), n - WordLen(Head(words)) - 1)
         ELSE <<Prefix(Head(words), n)>>

\* sanitizeCommand, first step: substring(0, 200) + '...[TRUNCATED]'.  The
\* marker joins the last word unless the cut fell after a space.
Truncate(words) ==
    IF Length(words) <= TRUNCATE_AT THEN words
    ELSE LET s == Substring(words, TRUNCATE_AT) IN
         IF Length(s) = TRUNCATE_AT
         THEN [s EXCEPT ![Len(s)].marker = TRUE]
         ELSE s \o <<TruncatedMarker>>

\* The i flag of the four credential-argument expressions.
LowerFlag(flag) ==
    CASE flag = "--PASSWORD" -> "--password"
      [] flag = "--Token" -> "--token"
      [] OTHER -> flag

CredentialFlags == {"--password", "--token", "--api-key", "--secret"}

\* What /\b[A-Z_]+_KEY=/, /\b[A-Z_]+_TOKEN=/ and /\b[A-Z_]+_SECRET=/ match
\* among the modelled variable names: capitals and underscores only, so not
\* AWS_S3_KEY (a digit) and not api_key (lower case).
EnvPatternOf(flag) ==
    CASE flag \in {"API_KEY", "AWS_SECRET_ACCESS_KEY"} -> "xxx_KEY"
      [] flag \in {"NPM_TOKEN"} -> "xxx_TOKEN"
      [] flag \in {"APP_SECRET"} -> "xxx_SECRET"
      [] OTHER -> ""

Redacted(flag) == Word(flag, 0, TRUE, "***", 3)

\* [\S]+ after the "=": at least one non-space character follows it.
ValueFollows(w) == w.eq /\ (w.valLen > 0 \/ w.marker)

\* sanitizeCommand, second step: the replace calls.  --flag=value and
\* NAME_KEY=value lose the value up to the next space; --flag followed by a
\* space loses the next word.
RECURSIVE Replace(_)
Replace(words) ==
    IF words = <<>> THEN <<>>
    ELSE LET w == Head(words)
             rest == Tail(words) IN
         IF LowerFlag(w.flag) \in CredentialFlags /\ ValueFollows(w)
         THEN <<Redacted(LowerFlag(w.flag))>> \o Replace(rest)
         ELSE IF /\ LowerFlag(w.flag) \in CredentialFlags
                 /\ ~w.eq /\ ~w.marker /\ rest # <<>>
         THEN <<Redacted(LowerFlag(w.flag))>> \o Replace(Tail(rest))
         ELSE IF EnvPatternOf(w.flag) # "" /\ ValueFollows(w)
         THEN <<Redacted(EnvPatternOf(w.flag))>> \o Replace(rest)
         ELSE <<w>> \o Replace(rest)

\* childProcHook.sanitizeCommand on a string.
sanitizeCommand(command) == Replace(Truncate(command))

\* The arguments of a child_process call: the first argument (one word for
\* a program or module path, several for a shell command) and the array
\* passed second, if any.
CommandArgs(firstArg, hasArray, argsArray) ==
    [firstArg |-> firstArg, hasArray |-> hasArray, argsArray |-> argsArray]

EchoHi == CommandArgs(<<Plain("echo", 4), Plain("hi", 2)>>, FALSE, <<>>)

\* childProcHook.extractCommand: exec sanitizes the command string, spawn
\* and execFile join the program and the array with spaces and sanitize,
\* fork prefixes "node " to the module path.
extractCommand(args, operation) ==
    IF operation \in {"exec", "execSync"} THEN sanitizeCommand(args.firstArg)
    ELSE IF operation \in {"spawn", "spawnSync", "execFile", "execFileSync"}
    THEN IF args.hasArray
         THEN sanitizeCommand(args.firstArg \o Join(args.argsArray))
         ELSE sanitizeCommand(args.firstArg)
    ELSE IF operation = "fork" THEN <<Plain("node", 4)>> \o args.firstArg
    ELSE sanitizeCommand(args.firstArg)

\* ------------------------------------------------------- call arguments

\* First arguments the model passes to the wrapped functions.
FsArgs == {"/tmp/x", "fd:3"}
CpArgs == {EchoHi}
NetArgs == {"opts:example.com:80", "ipc:/tmp/sock"}
IpUrl == "http://192.168.1.100:8080/x"
HttpArgs == {"http://example.com/", IpUrl, "num:42"}
\* An access of process.env: the property named, and the value the access
\* reads, writes or tests.
EnvAccess(property, value) == [property |-> property, value |-> value]
EnvValues == {"alpha", "beta"}
EnvArgs ==
    {EnvAccess(p, v) : p \in {"FOO", "Symbol(inspect)"}, v \in EnvValues}

ArgsOf(name) ==
    IF name \in FsNames THEN FsArgs
    ELSE IF name \in CpNames THEN CpArgs
    ELSE IF name = "net.connect" THEN NetArgs
    ELSE IF name \in NetNames THEN HttpArgs
    ELSE EnvArgs

OpsOf(name) == IF name = EnvName THEN {"get", "set", "has"} ELSE {"call"}

\* What the platform's own function does with an argument.
OrigOutcome(name, arg) ==
    IF name \in FsNames \cup NetNames /\ arg \in {"fd:3", "num:42"} THEN "throw:orig" ELSE "return:orig"

\* fsHook.sanitizePath: strings (here absolute, normalized) resolve to
\* themselves; numeric descriptors and other types give null.
sanitizePath(arg) ==
    IF arg # "fd:3" THEN [ok |-> TRUE, path |-> arg]
    ELSE [ok |-> FALSE, path |-> ""]

\* netHook.parseNetConnectArgs / parseHttpArgs: host and port, or null.
parseNetArgs(arg) ==
    CASE arg = "opts:example.com:80" -> [ok |-> TRUE, detail |-> "example.com:80"]
      [] arg = "http://example.com/" -> [ok |-> TRUE, detail |-> "example.com:80"]
      [] arg = IpUrl -> [ok |-> TRUE, detail |-> "192.168.1.100:8080"]
      [] OTHER -> [ok |-> FALSE, detail |-> ""]

\* httpHook.parseRequestArgs: "info" for a string, URL or object first
\* argument, "null" otherwise.
parseRequestArgs(arg) ==
    IF arg \in {"http://example.com/", IpUrl} THEN "info" ELSE "null"

\* The options parseRequestArgs reads host and port from: args[1] || {} for
\* a URL string, where an absent host is undefined and an absent port 0.
RequestOptions(arg) == [host |-> "undefined", port |-> 0]

\* httpHook.parseRequestArgs, the host and port of the request info.
requestInfo(arg, isHttps) ==
    [host |-> RequestOptions(arg).host,
     port |-> IF RequestOptions(arg).port # 0 THEN RequestOptions(arg).port
              ELSE IF isHttps THEN 443 ELSE 80]

\* /^\d{1,3}\.\d{1,3}\.\d{1,3}\.\d{1,3}$/.test(host)
ipPattern(host) == host \in {"192.168.1.100"}

Indicator(text, port) == [text |-> text, port |-> port]

\* httpHook.analyzeSuspiciousness, the address and port checks.
analyzeSuspiciousness(info) ==
    [isIpAddress |-> ipPattern(info.host),
     nonStandardPort |-> info.port \notin {80, 443, 8080},
     indicators |->
        (IF ipPattern(info.host)
         THEN <<Indicator("Direct IP request", 0)>> ELSE <<>>)
        \o (IF info.port \notin {80, 443, 8080}
            THEN <<Indicator("Non-standard port", info.port)>> ELSE <<>>)]

\* The metadata createHttpRequestHook hands to createSignal.
RequestMetadata(info) ==
    [host |-> info.host, port |-> info.port,
     suspicious |-> analyzeSuspiciousness(info)]

\* ------------------------------------------------------------ wrappers

\* The machine state a call threads through: the buffer, the manifest cache
\* and the invocations of platform functions made so far.
Machine(sigs, cache, fwd) == [sigs |-> sigs, cache |-> cache, fwd |-> fwd]

Min(a, b) == IF a < b THEN a ELSE b

SignalTypeOf(name) ==
    IF name \in Range(READ_FUNCTIONS) THEN "FS_READ"
    ELSE IF name \in Range(WRITE_FUNCTIONS) THEN "FS_WRITE"
    ELSE IF name \in CpNames THEN "SHELL_EXEC"
    ELSE IF name \in NetNames THEN "NET_CONNECT"
    ELSE "ENV_ACCESS"

HookFileOf(hook) ==
    CASE hook = "fs" -> HookFile("fsHook.js")
      [] hook = "net" -> HookFile("netHook.js")
      [] hook = "cp" -> HookFile("childProcHook.js")
      [] hook = "env" -> HookFile("envHook.js")
      [] OTHER -> HookFile("httpHook.js")

\* The reference a wrapper forwards to: fs, net and child_process wrappers
\* read their module's originalFunctions table at call time; the env proxy
\* and the httpHook wrapper use the reference their closure captured.
ForwardTarget(ref) ==
    CASE ref.hook = "fs" -> fsOrig[ref.name]
      [] ref.hook = "net" -> netOrig[ref.name]
      [] ref.hook = "cp" -> cpOrig[ref.name]
      [] OTHER -> captured[ref]

RECURSIVE Invoke(_, _, _, _, _, _, _, _)
RECURSIVE ResolveFrames(_, _, _, _, _)

\* The one element of a singleton set.
The(S) == CHOOSE x \in S : TRUE

\* What readPackageJson makes of the result r of its fs.readFileSync call.
ManifestRead(dir, r) ==
    IF r.res # "return:orig" \/ ManifestOnDisk(dir).state # "ok"
    THEN [found |-> FALSE, version |-> "",
          m |-> Machine(r.sigs, r.cache, r.fwd)]
    ELSE [found |-> TRUE, version |-> ManifestOnDisk(dir).version,
          m |-> Machine(r.sigs,
                        (dir :> ManifestOnDisk(dir).version) @@ r.cache,
                        r.fwd)]

\* A manifest lookup that reads the file every time.
readPackageJsonFresh(dir, estack, depth, m) ==
    IF ManifestOnDisk(dir).state = "missing"
    THEN [found |-> FALSE, version |-> "", m |-> m]
    ELSE The({ ManifestRead(dir, r) :
               r \in { Invoke(binding["readFileSync"], "call",
                              ManifestPath(dir), "module",
                              <<ResolverFile, ResolverFile, ResolverFile,
                                ResolverFile>> \o estack,
                              TRUE, depth + 1, m) } })

\* resolver.readPackageJson: the cached manifest, else the manifest read
\* through fs.readFileSync as currently bound; every failure gives null.
readPackageJson(dir, estack, depth, m) ==
    IF dir \in DOMAIN m.cache
    THEN [found |-> TRUE, version |-> m.cache[dir], m |-> m]
    ELSE IF ManifestOnDisk(dir).state = "missing"
    THEN [found |-> FALSE, version |-> "", m |-> m]
    ELSE The({ ManifestRead(dir, r) :
               r \in { Invoke(binding["readFileSync"], "call",
                              ManifestPath(dir), "module",
                              <<ResolverFile, ResolverFile, ResolverFile,
                                ResolverFile>> \o estack,
                              TRUE, depth + 1, m) } })

\* What extractPackageInfo returns for package p once the manifest lookup
\* gave r.
PackageInfo(p, r) ==
    IF ~r.found THEN [attr |-> NoAttr, m |-> r.m]
    ELSE [attr |-> [name |-> p.name,
                    version |-> IF r.version = "" THEN "unknown"
                                ELSE r.version,
                    path |-> p.dir],
          m |-> r.m]

\* resolver.extractPackageInfo
extractPackageInfo(path, k, estack, depth, m) ==
    LET p == PackageOfPath(path, k) IN
    IF ~p.ok THEN [attr |-> NoAttr, m |-> m]
    ELSE The({ PackageInfo(p, r) :
               r \in { readPackageJson(p.dir, estack, depth, m) } })

\* resolvePackageFromStack returning what the first node_modules frame gives,
\* absent included, without going on to the next frame.
ResolveFirstFrame(visible, i, estack, depth, m) ==
    LET idx == { j \in i..Len(visible) : NodeModulesIndex(visible[j]) # 0 } IN
    IF idx = {} THEN [attr |-> NoAttr, m |-> m]
    ELSE LET j == CHOOSE x \in idx : \A y \in idx : x <= y IN
         extractPackageInfo(visible[j], NodeModulesIndex(visible[j]), estack,
                            depth, m)

\* resolver.resolvePackageFromStack, from frame i of the captured frames.
ResolveFrames(visible, i, estack, depth, m) ==
    IF i > Len(visible) THEN [attr |-> NoAttr, m |-> m]
    ELSE LET k == NodeModulesIndex(visible[i]) IN
         IF k = 0 THEN ResolveFrames(visible, i + 1, estack, depth, m)
         ELSE The({ IF r.attr # NoAttr THEN r
                    ELSE ResolveFrames(visible, i + 1, estack, depth, r.m) :
                    r \in { extractPackageInfo(visible[i], k, estack, depth,
                                               m) } })

\* resolver.resolveCurrentStack, called with estack as the frames below it.
resolveCurrentStack(estack, depth, m) ==
    ResolveFrames(SubSeq(estack, 1, Min(Len(estack), StackTraceLimit)), 1,
                  estack, depth, m)

\* Whether the emit function gets as far as attribution for this argument.
ReachesAttribution(hook, arg) ==
    CASE hook = "env" -> arg.property # "Symbol(inspect)"
      [] hook = "net" -> parseNetArgs(arg).ok
      [] OTHER -> TRUE

\* The env traps call emitEnvAccessSignal(property): of the access only the
\* property name reaches the signal.
variableName(access) == access.property

\* The metadata the emit function builds; ok is FALSE where it returns early.
SignalDetail(hook, name, arg) ==
    CASE hook = "fs" -> [ok |-> sanitizePath(arg).ok, op |-> name,
                         detail |-> sanitizePath(arg).path]
      [] hook = "cp" -> [ok |-> TRUE, op |-> name,
                         detail |-> extractCommand(arg, name)]
      [] hook = "net" -> [ok |-> TRUE,
                          op |-> CASE name = "net.connect" -> "tcp"
                                   [] name = "http.request" -> "http"
                                   [] OTHER -> "https",
                          detail |-> parseNetArgs(arg).detail]
      [] OTHER -> [ok |-> TRUE, op |-> "env", detail |-> variableName(arg)]

\* An emit function without its "if (!attribution) return".
EmitAny(attr) == TRUE

\* emitFsSignal / emitNetSignal / emitShellSignal / emitEnvAccessSignal:
\* a signal is pushed only for an attributed call.
EmitAttributed(attr) == attr # NoAttr

\* An emit function that puts the signal at the front (unshift).
EmitWithFront(hook, name, arg, a) ==
    LET d == SignalDetail(hook, name, arg)
        s == createSignal(SignalTypeOf(name), d.op, d.detail,
                          a.attr.name, a.attr.version) IN
    IF EmitAttributed(a.attr) /\ d.ok /\ s.ok
    THEN Machine(<<s.signal>> \o a.m.sigs, a.m.cache, a.m.fwd)
    ELSE a.m

\* What the emit function does once attribution gave a.
EmitWith(hook, name, arg, a) ==
    LET d == SignalDetail(hook, name, arg)
        s == createSignal(SignalTypeOf(name), d.op, d.detail,
                          a.attr.name, a.attr.version) IN
    IF EmitAttributed(a.attr) /\ d.ok /\ s.ok
    THEN Machine(Append(a.m.sigs, s.signal), a.m.cache, a.m.fwd)
    ELSE a.m

Emit(hook, name, arg, estack, depth, m) ==
    IF ~ReachesAttribution(hook, arg) THEN m
    ELSE The({ EmitWith(hook, name, arg, a) :
               a \in { resolveCurrentStack(estack, depth, m) } })

\* The wrapper's forwarding call: the target, the arguments and the receiver
\* it passes on.
Forwarded(ref, op, arg, recv) ==
    [target |-> ForwardTarget(ref), op |-> op, arg |-> arg, recv |-> recv]

\* A call of reference ref with first argument arg and receiver recv, made
\* from call stack cstack. The result carries the machine state afterwards
\* and res, what the caller sees: "return:orig" / "throw:orig" (the platform
\* function's own result), "throw:RangeError" or "throw:TypeError".
Invoke(ref, op, arg, recv, cstack, nested, depth, m) ==
    IF ref.kind = "nil"
    THEN [sigs |-> m.sigs, cache |-> m.cache, fwd |-> m.fwd,
          res |-> "throw:TypeError"]
    ELSE IF ref.kind = "orig"
    THEN [sigs |-> m.sigs, cache |-> m.cache,
          fwd |-> Append(m.fwd, [name |-> ref.name, op |-> op, arg |-> arg,
                                 recv |-> recv, nested |-> nested,
                                 seen |-> Len(m.sigs)]),
          res |-> OrigOutcome(ref.name, arg)]
    ELSE IF depth > MaxCallDepth
    THEN [sigs |-> m.sigs, cache |-> m.cache, fwd |-> m.fwd,
          res |-> "throw:RangeError"]
    ELSE IF ref.hook = "http"
    THEN \* no try/catch: getPackageFromStack is not a function
         IF parseRequestArgs(arg) = "info"
         THEN [sigs |-> m.sigs, cache |-> m.cache, fwd |-> m.fwd,
               res |-> "throw:TypeError"]
         ELSE Invoke(captured[ref], op, arg, recv,
                     <<HookFileOf("http")>> \o cstack, nested, depth + 1, m)
    ELSE LET f == HookFileOf(ref.hook)
             w == Forwarded(ref, op, arg, recv) IN
         The({ Invoke(w.target, w.op, w.arg, w.recv, <<f>> \o cstack, nested,
                      depth + 1, m1) :
               m1 \in { Emit(ref.hook, ref.name, arg, <<f, f>> \o cstack,
                             depth, m) } })

\* ------------------------------------------------------------ scoring

RISK_WEIGHTS ==
    [SHELL_EXEC |-> 20, FS_WRITE |-> 10, NET_CONNECT |-> 8, ENV_ACCESS |-> 5,
     FS_READ |-> 3]

\* Every signal type deducting the same.
FlatWeight(type) == IF type \in DOMAIN RISK_WEIGHTS THEN 10 ELSE 0

\* RISK_WEIGHTS[signal.type] || 0
WeightOf(type) ==
    IF type \in DOMAIN RISK_WEIGHTS THEN RISK_WEIGHTS[type] ELSE 0

RECURSIVE ScoreFromNoFloor(_, _, _)
\* The loop of calculateTrustScore without its floor.
ScoreFromNoFloor(sigs, i, score) ==
    IF i > Len(sigs) THEN score
    ELSE ScoreFromNoFloor(sigs, i + 1, score - WeightOf(sigs[i].type))

RECURSIVE ScoreFromSecond(_, _, _)
\* The loop of calculateTrustScore starting at the second signal.
ScoreFromSecond(sigs, i, score) ==
    IF i > Len(sigs) THEN score
    ELSE IF i = 1 THEN ScoreFromSecond(sigs, 2, score)
    ELSE IF score - WeightOf(sigs[i].type) < 0 THEN 0
    ELSE ScoreFromSecond(sigs, i + 1, score - WeightOf(sigs[i].type))

RECURSIVE ScoreFrom(_, _, _)
\* The loop of calculateTrustScore from signal i on with the running score:
\* deduct the weight; below zero the score becomes 0 and the loop ends.
ScoreFrom(sigs, i, score) ==
    IF i > Len(sigs) THEN score
    ELSE IF score - WeightOf(sigs[i].type) < 0 THEN 0
    ELSE ScoreFrom(sigs, i + 1, score - WeightOf(sigs[i].type))

calculateTrustScore(sigs) ==
    IF Len(sigs) = 0 THEN 100 ELSE ScoreFrom(sigs, 1, 100)

\* `${signal.package}@${signal.version}`
ScoreKey(sig) == <<sig.package, sig.version>>

RECURSIVE KeysFrom(_, _, _)
\* The keys of packageMap in insertion order.
KeysFrom(sigs, i, keys) ==
    IF i > Len(sigs) THEN keys
    ELSE IF ScoreKey(sigs[i]) \in Range(keys)
    THEN KeysFrom(sigs, i + 1, keys)
    ELSE KeysFrom(sigs, i + 1, Append(keys, ScoreKey(sigs[i])))

initializeStats == [t \in SignalTypes |-> 0]

\* updateStats folded over a package's signals.
StatsOf(sigs) ==
    [t \in SignalTypes |-> Len(SelectSeq(sigs, LAMBDA s : s.type = t))]

\* calculateAllScores: signals without a package are skipped, the rest are
\* grouped by name@version; one entry per key, in insertion order.
calculateAllScores(allSignals) ==
    LET attributed == SelectSeq(allSignals, LAMBDA s : s.package # <<>>)
        keys == KeysFrom(attributed, 1, <<>>)
        group(k) == SelectSeq(attributed, LAMBDA s : ScoreKey(s) = k)
    IN [i \in 1..Len(keys) |->
          [key |-> keys[i],
           name |-> keys[i][1],
           version |-> keys[i][2],
           score |-> calculateTrustScore(group(keys[i])),
           signalCount |-> Len(group(keys[i])),
           stats |-> IF Len(group(keys[i])) = 0 THEN initializeStats
                     ELSE StatsOf(group(keys[i]))]]

\* getRiskLevel with strict comparisons.
getRiskLevelStrict(score) ==
    IF score > 80 THEN "LOW"
    ELSE IF score > 60 THEN "MEDIUM"
    ELSE IF score > 30 THEN "HIGH"
    ELSE "CRITICAL"

getRiskLevel(score) ==
    IF score >= 80 THEN "LOW"
    ELSE IF score >= 60 THEN "MEDIUM"
    ELSE IF score >= 30 THEN "HIGH"
    ELSE "CRITICAL"

\* -------------------------------------------------------------- report

\* A metadata value: a string with its length (truncated once the marker
\* '...[TRUNCATED]' follows it), a number, an object, or undefined.
MetaValue(t, text, len) == [t |-> t, text |-> text, len |-> len,
                            truncated |-> FALSE]
MetaEntry(key, val) == [key |-> key, val |-> val]
Metadata(isObject, entries) == [isObject |-> isObject, entries |-> entries]

\* metadata[field]
MetaGet(metadata, field) ==
    IF \E i \in DOMAIN metadata.entries : metadata.entries[i].key = field
    THEN metadata.entries[CHOOSE i \in DOMAIN metadata.entries :
                              metadata.entries[i].key = field].val
    ELSE MetaValue("undefined", "", 0)

allowedFields ==
    <<"variable", "path", "operation", "host", "port", "protocol", "command">>

\* substring(0, 500) + '...[TRUNCATED]' for a string longer than 500.
CutValue(val) ==
    IF val.t = "string" /\ val.len > 500
    THEN [val EXCEPT !.len = 500, !.truncated = TRUE]
    ELSE val

\* A projection that copies every field of the metadata.
sanitizeMetadataAll(metadata) ==
    IF ~metadata.isObject THEN <<>>
    ELSE [i \in DOMAIN metadata.entries |->
            MetaEntry(metadata.entries[i].key,
                      CutValue(metadata.entries[i].val))]

\* jsonFormatter.sanitizeMetadata: the allowed fields that are defined, in
\* the order of allowedFields, long strings cut.
sanitizeMetadata(metadata) ==
    IF ~metadata.isObject THEN <<>>
    ELSE LET present == SelectSeq(allowedFields,
                 LAMBDA f : MetaGet(metadata, f).t # "undefined") IN
         [i \in DOMAIN present |->
            MetaEntry(present[i], CutValue(MetaGet(metadata, present[i])))]

\* jsonFormatter.sanitizeSignals
sanitizeSignals(allSignals) ==
    LET attributed == SelectSeq(allSignals, LAMBDA s : s.package # <<>>) IN
    [i \in DOMAIN attributed |->
        [timestamp |-> attributed[i].timestamp,
         type |-> attributed[i].type,
         package |-> attributed[i].package,
         version |-> attributed[i].version,
         metadata |-> sanitizeMetadata(attributed[i].metadata)]]

\* jsonFormatter.buildSummary
buildSummary(scoreMap, allSignals) ==
    [totalPackages |-> Len(scoreMap),
     totalSignals |-> Len(SelectSeq(allSignals, LAMBDA s : s.package # <<>>)),
     riskDistribution |->
        [level \in {"CRITICAL", "HIGH", "MEDIUM", "LOW"} |->
            Len(SelectSeq(scoreMap,
                          LAMBDA d : getRiskLevel(d.score) = level))]]

PackageEntry(data) ==
    [name |-> data.name, version |-> data.version, trustScore |-> data.score,
     riskLevel |-> getRiskLevel(data.score),
     signalCount |-> data.signalCount, behaviors |-> data.stats]

\* Array.prototype.sort((a, b) => a.trustScore - b.trustScore), stable.
RECURSIVE SortByTrustScore(_)
SortByTrustScore(packages) ==
    IF packages = <<>> THEN <<>>
    ELSE LET p == packages[Len(packages)]
             front == SortByTrustScore(SubSeq(packages, 1, Len(packages) - 1))
         IN SelectSeq(front, LAMBDA q : q.trustScore <= p.trustScore)
            \o <<p>>
            \o SelectSeq(front, LAMBDA q : q.trustScore > p.trustScore)

\* jsonFormatter.buildPackageList
buildPackageList(scoreMap) ==
    SortByTrustScore([i \in DOMAIN scoreMap |-> PackageEntry(scoreMap[i])])

\* jsonFormatter.formatReport, the report object it serializes.
formatReport(scoreMap, allSignals) ==
    [version |-> "1.0",
     summary |-> buildSummary(scoreMap, allSignals),
     packages |-> buildPackageList(scoreMap),
     signals |-> sanitizeSignals(allSignals)]

NoReport ==
    [version |-> "none", summary |-> <<>>, packages |-> <<>>,
     signals |-> <<>>]

\* ------------------------------------------------------------ patterns

\* SignalType.X as the pattern matcher reads it: a member of the enumeration,
\* or undefined for a name the enumeration does not have.
SignalType(member) ==
    IF member \in SignalTypes THEN member ELSE "undefined"

\* The signature tables (malwareSignatures). A text is a sequence of tokens;
\* a table entry is one token.
CRYPTO_MINER_PATTERNS ==
    [processes |-> <<"xmrig", "ethminer", "cpuminer">>,
     domains |-> <<"pool.example">>,
     envVars |-> <<"MINER_POOL">>]

DATA_EXFILTRATION_PATTERNS ==
    [sensitiveFiles |-> <<".npmrc", ".env", ".aws/credentials">>,
     exfiltrationServices |-> <<"pastebin", "webhook.site">>]

BACKDOOR_PATTERNS ==
    [reverseShellCommands |-> <<"nc -e", "/bin/bash -i">>,
     ratTools |-> <<"ngrok", "localtunnel">>,
     suspiciousPorts |-> <<"1337", "4444", "31337">>]

CREDENTIAL_THEFT_PATTERNS ==
    [secretEnvVars |-> <<"AWS_ACCESS_KEY_ID", "NPM_TOKEN">>,
     credentialFiles |-> <<".aws/credentials">>]

\* String.prototype.toLowerCase on a token.
LowerToken(tok) ==
    CASE tok = "XMRig" -> "xmrig"
      [] tok = "NGROK" -> "ngrok"
      [] OTHER -> tok

toLowerCase(text) == [i \in 1..Len(text) |-> LowerToken(text[i])]

\* String.prototype.includes
Includes(text, pat) == \E i \in 1..Len(text) : text[i] = pat

RECURSIVE ConcatAll(_)
ConcatAll(seqs) ==
    IF seqs = <<>> THEN <<>> ELSE Head(seqs) \o ConcatAll(Tail(seqs))

\* One finding per entry of table that the signal matches, in table order.
FindingsOf(table, Hit(_), type, severity, signal) ==
    LET hits == SelectSeq(table, Hit) IN
    [i \in 1..Len(hits) |->
        [type |-> type, severity |-> severity, package |-> signal.package,
         indicator |-> hits[i]]]

IsHttpSignal(signal) ==
    \/ signal.type = SignalType("HTTP_REQUEST")
    \/ signal.type = SignalType("HTTPS_REQUEST")

\* patternMatcher.detectCryptoMiners
detectCryptoMiners(sigs) ==
    ConcatAll([i \in 1..Len(sigs) |->
        (IF sigs[i].type = SignalType("SHELL_EXEC")
         THEN FindingsOf(CRYPTO_MINER_PATTERNS.processes,
                         LAMBDA p : Includes(toLowerCase(sigs[i].detail),
                                             LowerToken(p)),
                         "CRYPTO_MINER_PROCESS", "CRITICAL", sigs[i])
         ELSE <<>>)
        \o (IF IsHttpSignal(sigs[i])
            THEN FindingsOf(CRYPTO_MINER_PATTERNS.domains,
                            LAMBDA p : Includes(toLowerCase(sigs[i].detail),
                                                p),
                            "MINING_POOL_CONNECTION", "CRITICAL", sigs[i])
            ELSE <<>>)
        \o (IF sigs[i].type = SignalType("ENV_ACCESS")
            THEN FindingsOf(CRYPTO_MINER_PATTERNS.envVars,
                            LAMBDA p : sigs[i].detail = <<p>>,
                            "MINING_ENV_VAR", "HIGH", sigs[i])
            ELSE <<>>)])

\* The packages with a sensitive file read, in the order of their first one
\* (the keys of sensitiveFileReads).
IsSensitiveRead(signal) ==
    /\ signal.type = SignalType("FS_READ")
    /\ \E k \in 1..Len(DATA_EXFILTRATION_PATTERNS.sensitiveFiles) :
          Includes(signal.detail, DATA_EXFILTRATION_PATTERNS.sensitiveFiles[k])

RECURSIVE SensitiveReaders(_, _)
SensitiveReaders(sigs, seen) ==
    IF sigs = <<>> THEN <<>>
    ELSE IF IsSensitiveRead(Head(sigs)) /\ Head(sigs).package \notin seen
    THEN <<Head(sigs).package>>
            \o SensitiveReaders(Tail(sigs), seen \cup {Head(sigs).package})
    ELSE SensitiveReaders(Tail(sigs), seen)

\* patternMatcher.detectDataExfiltration
detectDataExfiltration(sigs) ==
    ConcatAll([i \in 1..Len(sigs) |->
        IF IsHttpSignal(sigs[i])
        THEN FindingsOf(DATA_EXFILTRATION_PATTERNS.exfiltrationServices,
                        LAMBDA p : Includes(toLowerCase(sigs[i].detail), p),
                        "EXFILTRATION_SERVICE", "CRITICAL", sigs[i])
        ELSE <<>>])
    \o LET readers == SelectSeq(SensitiveReaders(sigs, {}),
                         LAMBDA pkg : \E i \in 1..Len(sigs) :
                            sigs[i].package = pkg /\ IsHttpSignal(sigs[i]))
       IN [i \in 1..Len(readers) |->
              [type |-> "SENSITIVE_FILE_PLUS_HTTP", severity |-> "CRITICAL",
               package |-> readers[i], indicator |-> "sensitive file + http"]]

\* patternMatcher.detectBackdoors
detectBackdoors(sigs) ==
    ConcatAll([i \in 1..Len(sigs) |->
        (IF sigs[i].type = SignalType("SHELL_EXEC")
         THEN FindingsOf(BACKDOOR_PATTERNS.reverseShellCommands,
                         LAMBDA p : Includes(sigs[i].detail, p),
                         "REVERSE_SHELL", "CRITICAL", sigs[i])
              \o FindingsOf(BACKDOOR_PATTERNS.ratTools,
                            LAMBDA p : Includes(toLowerCase(sigs[i].detail),
                                                p),
                            "REMOTE_ACCESS_TOOL", "HIGH", sigs[i])
         ELSE <<>>)
        \o (IF sigs[i].type = SignalType("NET_CONNECT")
            THEN FindingsOf(BACKDOOR_PATTERNS.suspiciousPorts,
                            LAMBDA p : sigs[i].detail[Len(sigs[i].detail)] = p,
                            "SUSPICIOUS_PORT", "HIGH", sigs[i])
            ELSE <<>>)])

\* patternMatcher.detectCredentialTheft
detectCredentialTheft(sigs) ==
    ConcatAll([i \in 1..Len(sigs) |->
        (IF sigs[i].type = SignalType("ENV_ACCESS")
         THEN FindingsOf(CREDENTIAL_THEFT_PATTERNS.secretEnvVars,
                         LAMBDA p : sigs[i].detail = <<p>>,
                         "SECRET_ENV_ACCESS", "HIGH", sigs[i])
         ELSE <<>>)
        \o (IF sigs[i].type = SignalType("FS_READ")
            THEN FindingsOf(CREDENTIAL_THEFT_PATTERNS.credentialFiles,
                            LAMBDA p : Includes(sigs[i].detail, p),
                            "CREDENTIAL_FILE_READ", "HIGH", sigs[i])
            ELSE <<>>)])

\* The result analyzePatterns starts from, and returns when not enabled.
NoThreats ==
    [cryptoMining |-> <<>>, dataExfiltration |-> <<>>, backdoors |-> <<>>,
     credentialTheft |-> <<>>,
     summary |-> [totalThreats |-> 0, highestSeverity |-> "NONE"]]

\* The summary label taken from the findings' own severities.
SeverityByFinding(r) ==
    LET all == r.cryptoMining \o r.dataExfiltration \o r.backdoors
                  \o r.credentialTheft IN
    IF \E i \in 1..Len(all) : all[i].severity = "CRITICAL" THEN "CRITICAL"
    ELSE IF \E i \in 1..Len(all) : all[i].severity = "HIGH" THEN "HIGH"
    ELSE IF Len(all) > 0 THEN "MEDIUM"
    ELSE "NONE"

\* analyzePatterns' "Determine highest severity".
SeverityByCategory(r) ==
    IF Len(r.backdoors) > 0 \/ Len(r.cryptoMining) > 0 THEN "CRITICAL"
    ELSE IF Len(r.dataExfiltration) > 0 \/ Len(r.credentialTheft) > 0
    THEN "HIGH"
    ELSE IF Len(r.cryptoMining) + Len(r.dataExfiltration) + Len(r.backdoors)
               + Len(r.credentialTheft) > 0
    THEN "MEDIUM"
    ELSE "NONE"

\* patternMatcher.analyzePatterns
analyzePatterns(sigs, config) ==
    IF ~config.enabled THEN NoThreats
    ELSE LET r == [cryptoMining |->
                      IF config.detectCryptoMiners
                      THEN detectCryptoMiners(sigs) ELSE <<>>,
                   dataExfiltration |->
                      IF config.detectDataExfiltration
                      THEN detectDataExfiltration(sigs) ELSE <<>>,
                   backdoors |->
                      IF config.detectBackdoors
                      THEN detectBackdoors(sigs) ELSE <<>>,
                   credentialTheft |-> detectCredentialTheft(sigs)]
         IN [cryptoMining |-> r.cryptoMining,
             dataExfiltration |-> r.dataExfiltration,
             backdoors |-> r.backdoors,
             credentialTheft |-> r.credentialTheft,
             summary |->
                [totalThreats |->
                    Len(r.cryptoMining) + Len(r.dataExfiltration)
                       + Len(r.backdoors) + Len(r.credentialTheft),
                 highestSeverity |-> SeverityByCategory(r)]]

\* ------------------------------------------------------------ configuration

\* JavaScript values a configuration holds: t is the kind, v the number (or
\* 1 for true and for a non-empty string, 0 for false and the empty string),
\* entries the own properties of an object in order.
JsValue(t, v, entries) == [t |-> t, v |-> v, entries |-> entries]
Undefined == JsValue("undefined", 0, <<>>)
Num(n) == JsValue("number", n, <<>>)
NotANumber == JsValue("NaN", 0, <<>>)
Bool(b) == JsValue("boolean", IF b THEN 1 ELSE 0, <<>>)
Str(nonEmpty) == JsValue("string", IF nonEmpty THEN 1 ELSE 0, <<>>)
Arr == JsValue("array", 0, <<>>)
Obj(entries) == JsValue("object", 0, entries)
Entry(key, val) == [key |-> key, val |-> val]

\* typeof x
typeof(x) ==
    CASE x.t = "NaN" -> "number"
      [] x.t = "array" -> "object"
      [] OTHER -> x.t

\* The condition "if (x)".
Truthy(x) ==
    CASE x.t \in {"undefined", "NaN"} -> FALSE
      [] x.t \in {"number", "boolean", "string"} -> x.v # 0
      [] OTHER -> TRUE

\* obj.key: the property's value, undefined when obj has none or is not an
\* object.
Get(obj, key) ==
    IF \E i \in 1..Len(obj.entries) : obj.entries[i].key = key
    THEN obj.entries[CHOOSE i \in 1..Len(obj.entries) :
                        obj.entries[i].key = key].val
    ELSE Undefined

\* typeof x !== 'number' || x < lo || x > hi  (comparisons with NaN are
\* false)
NotNumberOrOutside(x, lo, hi) ==
    \/ typeof(x) # "number"
    \/ x.t = "number" /\ (x.v < lo \/ x.v > hi)

\* a >= b on two defined values
NumGeq(a, b) == a.t = "number" /\ b.t = "number" /\ a.v >= b.v

validHooks == {"env", "fs", "net", "childProcess", "http"}

\* The errors one property of a section gives, in order.
HookErrors(e) ==
    (IF e.key \notin validHooks THEN <<"Invalid hook">> ELSE <<>>)
    \o (IF typeof(e.val) # "boolean" THEN <<"Hook must be a boolean">>
        ELSE <<>>)

WeightErrors(e) ==
    (IF SignalType(e.key) = "undefined"
     THEN <<"Invalid signal type in riskWeights">> ELSE <<>>)
    \o (IF NotNumberOrOutside(e.val, 0, 100)
        THEN <<"Risk weight must be a number between 0-100">> ELSE <<>>)

ThresholdErrors(th) ==
    LET critical == Get(th, "critical")
        high == Get(th, "high")
        medium == Get(th, "medium") IN
    (IF critical # Undefined /\ NotNumberOrOutside(critical, 0, 100)
     THEN <<"critical threshold must be 0-100">> ELSE <<>>)
    \o (IF high # Undefined /\ NotNumberOrOutside(high, 0, 100)
        THEN <<"high threshold must be 0-100">> ELSE <<>>)
    \o (IF medium # Undefined /\ NotNumberOrOutside(medium, 0, 100)
        THEN <<"medium threshold must be 0-100">> ELSE <<>>)
    \o (IF critical # Undefined /\ high # Undefined /\ NumGeq(critical, high)
        THEN <<"critical threshold must be less than high threshold">>
        ELSE <<>>)
    \o (IF high # Undefined /\ medium # Undefined /\ NumGeq(high, medium)
        THEN <<"high threshold must be less than medium threshold">>
        ELSE <<>>)

\* The errors of a section that must be an object when given.
SectionErrors(section, what, PerEntry(_)) ==
    IF ~Truthy(section) THEN <<>>
    ELSE IF typeof(section) # "object" THEN <<what>>
    ELSE ConcatAll([i \in 1..Len(section.entries) |->
                       PerEntry(section.entries[i])])

\* schema.validateConfig
validateConfig(c) ==
    IF ~Truthy(c) \/ typeof(c) # "object"
    THEN [valid |-> FALSE, errors |-> <<"Configuration must be an object">>]
    ELSE LET errors ==
               SectionErrors(Get(c, "hooks"), "hooks must be an object",
                             HookErrors)
               \o SectionErrors(Get(c, "riskWeights"),
                                "riskWeights must be an object", WeightErrors)
               \o (IF ~Truthy(Get(c, "thresholds")) THEN <<>>
                   ELSE IF typeof(Get(c, "thresholds")) # "object"
                   THEN <<"thresholds must be an object">>
                   ELSE ThresholdErrors(Get(c, "thresholds")))
               \o (IF Truthy(Get(c, "whitelist"))
                      /\ Get(c, "whitelist").t # "array"
                   THEN <<"whitelist must be an array">> ELSE <<>>)
               \o (IF Truthy(Get(c, "blacklist"))
                      /\ Get(c, "blacklist").t # "array"
                   THEN <<"blacklist must be an array">> ELSE <<>>)
               \o (IF Truthy(Get(c, "patterns"))
                      /\ typeof(Get(c, "patterns")) # "object"
                   THEN <<"patterns must be an object">> ELSE <<>>)
               \o (IF ~Truthy(Get(c, "performance")) THEN <<>>
                   ELSE IF typeof(Get(c, "performance")) # "object"
                   THEN <<"performance must be an object">>
                   ELSE LET m == Get(Get(c, "performance"), "maxSignals") IN
                        IF m # Undefined
                           /\ (typeof(m) # "number"
                               \/ (m.t = "number" /\ m.v < 1))
                        THEN <<"maxSignals must be a positive number">>
                        ELSE <<>>)
         IN [valid |-> errors = <<>>, errors |-> errors]

NotValidated == [valid |-> FALSE, errors |-> <<>>]

\* obj[key] = val: an own property keeps its place, a new one goes last.
SetProperty(entries, key, val) ==
    IF \E i \in 1..Len(entries) : entries[i].key = key
    THEN [i \in 1..Len(entries) |->
            IF entries[i].key = key THEN Entry(key, val) ELSE entries[i]]
    ELSE Append(entries, Entry(key, val))

\* Assigning the properties of more, in order; a property written as
\* Undefined stands for one the object does not have.
RECURSIVE AssignAll(_, _)
AssignAll(entries, more) ==
    IF more = <<>> THEN entries
    ELSE AssignAll(IF Head(more).val = Undefined THEN entries
                   ELSE SetProperty(entries, Head(more).key, Head(more).val),
                   Tail(more))

\* An object literal { k1: v1, k2: v2, ... } with computed keys.
ObjectLiteral(entries) == Obj(AssignAll(<<>>, entries))

\* { ...a, ...b }: spreading undefined or an array without elements adds
\* nothing.
Spread(a, b) == Obj(AssignAll(AssignAll(<<>>, a.entries), b.entries))

\* schema.DEFAULT_CONFIG
DEFAULT_CONFIG ==
    Obj(<<Entry("hooks",
                Obj(<<Entry("env", Bool(TRUE)), Entry("fs", Bool(TRUE)),
                      Entry("net", Bool(TRUE)),
                      Entry("childProcess", Bool(TRUE)),
                      Entry("http", Bool(TRUE))>>)),
          Entry("riskWeights",
                ObjectLiteral(
                    <<Entry(SignalType("SHELL_EXEC"), Num(20)),
                      Entry(SignalType("FS_WRITE"), Num(10)),
                      Entry(SignalType("NET_CONNECT"), Num(8)),
                      Entry(SignalType("HTTP_REQUEST"), Num(10)),
                      Entry(SignalType("HTTPS_REQUEST"), Num(8)),
                      Entry(SignalType("ENV_ACCESS"), Num(5)),
                      Entry(SignalType("FS_READ"), Num(3))>>)),
          Entry("thresholds",
                Obj(<<Entry("critical", Num(30)), Entry("high", Num(60)),
                      Entry("medium", Num(80))>>)),
          Entry("whitelist", Arr),
          Entry("blacklist", Arr),
          Entry("patterns",
                Obj(<<Entry("enabled", Bool(TRUE)),
                      Entry("detectCryptoMiners", Bool(TRUE)),
                      Entry("detectDataExfiltration", Bool(TRUE)),
                      Entry("detectBackdoors", Bool(TRUE)),
                      Entry("detectObfuscation", Bool(TRUE))>>)),
          Entry("performance",
                Obj(<<Entry("track", Bool(FALSE)),
                      Entry("maxSignals", Num(10000))>>)),
          Entry("output",
                Obj(<<Entry("formats", Arr), Entry("verbosity", Str(TRUE)),
                      Entry("includeStackTraces", Bool(TRUE))>>))>>)

\* userConfig.list || DEFAULT_CONFIG.list
OrDefault(u, key) ==
    IF Truthy(Get(u, key)) THEN Get(u, key) ELSE Get(DEFAULT_CONFIG, key)

\* schema.mergeConfig
mergeConfig(u) ==
    Obj(<<Entry("hooks", Spread(Get(DEFAULT_CONFIG, "hooks"), Get(u, "hooks"))),
          Entry("riskWeights", Spread(Get(DEFAULT_CONFIG, "riskWeights"),
                                      Get(u, "riskWeights"))),
          Entry("thresholds", Spread(Get(DEFAULT_CONFIG, "thresholds"),
                                     Get(u, "thresholds"))),
          Entry("whitelist", OrDefault(u, "whitelist")),
          Entry("blacklist", OrDefault(u, "blacklist")),
          Entry("patterns", Spread(Get(DEFAULT_CONFIG, "patterns"),
                                   Get(u, "patterns"))),
          Entry("performance", Spread(Get(DEFAULT_CONFIG, "performance"),
                                      Get(u, "performance"))),
          Entry("output", Spread(Get(DEFAULT_CONFIG, "output"),
                                 Get(u, "output")))>>)

\* What a loader call gives its caller: the configuration returned, or the
\* error raised ("" if none); errors are the validation errors the caller
\* receives (in the raised error's message) and warned the lines written to
\* the console.
LoadResult(threw, config, errors, warned) ==
    [threw |-> threw, config |-> config, errors |-> errors, warned |-> warned]

\* The observation of a loader call: the call, where the configuration came
\* from, and what the caller got.
LoadObs(op, source, result) == [op |-> op, source |-> source, result |-> result]

NotLoaded ==
    LoadObs("none", [kind |-> "none"], LoadResult("", Undefined, <<>>, <<>>))

\* loader.loadConfigFromObject
loadConfigFromObject(configObj) ==
    LET v == validateConfig(configObj) IN
    IF ~v.valid
    THEN LoadResult("Invalid configuration", Undefined, v.errors, <<>>)
    ELSE LoadResult("", mergeConfig(configObj), <<>>, <<>>)

\* A configuration file: whether its path holds 'node_modules', its
\* extension, and whether its text parses (as JSON, or loads as a module).
ConfigFile(inNodeModules, ext, parses) ==
    [inNodeModules |-> inNodeModules, ext |-> ext, parses |-> parses]

\* loader.loadConfigFile: threw is the error raised, "" if none; content is
\* what the file holds.
loadConfigFile(file, content) ==
    IF file.ext \in {".json", ""}
    THEN IF file.parses THEN [threw |-> "", value |-> content]
         ELSE [threw |-> "SyntaxError", value |-> Undefined]
    ELSE IF file.ext = ".js"
    THEN IF ~file.inNodeModules
         THEN IF file.parses THEN [threw |-> "", value |-> content]
              ELSE [threw |-> "SyntaxError", value |-> Undefined]
         ELSE [threw |-> "Cannot load config from node_modules",
               value |-> Undefined]
    ELSE [threw |-> "Unsupported config file extension", value |-> Undefined]

CONFIG_FILES ==
    <<".bheeshmarc.json", ".bheeshmarc", "bheeshma.config.json",
      "bheeshma.config.js">>

\* path.extname of a CONFIG_FILES name
ExtName(filename) ==
    CASE filename = ".bheeshmarc" -> ""
      [] filename = "bheeshma.config.js" -> ".js"
      [] OTHER -> ".json"

\* loader.searchConfigFile from name i on: the first existing file that
\* loads, else {}. existing maps the names present in the working directory
\* to whether they parse.
RECURSIVE SearchFrom(_, _, _, _)
SearchFrom(i, cwdInNodeModules, existing, content) ==
    IF i > Len(CONFIG_FILES) THEN [value |-> Obj(<<>>), found |-> ""]
    ELSE IF CONFIG_FILES[i] \notin DOMAIN existing
    THEN SearchFrom(i + 1, cwdInNodeModules, existing, content)
    ELSE LET r == loadConfigFile(
                     ConfigFile(cwdInNodeModules, ExtName(CONFIG_FILES[i]),
                                existing[CONFIG_FILES[i]]), content) IN
         IF r.threw = "" THEN [value |-> r.value, found |-> CONFIG_FILES[i]]
         ELSE SearchFrom(i + 1, cwdInNodeModules, existing, content)

searchConfigFile(cwdInNodeModules, existing, content) ==
    SearchFrom(1, cwdInNodeModules, existing, content)

\* loader.loadConfig, once the user configuration is loaded.
loadConfigWith(userCfg) ==
    LET v == validateConfig(userCfg) IN
    IF ~v.valid
    THEN LoadResult("", DEFAULT_CONFIG, <<>>, v.errors)
    ELSE LoadResult("", mergeConfig(userCfg), <<>>, <<>>)

\* loader.loadConfig(configPath)
loadConfigPath(file, content) ==
    LET r == loadConfigFile(file, content) IN
    IF r.threw # "" THEN LoadResult(r.threw, Undefined, <<>>, <<>>)
    ELSE loadConfigWith(r.value)

\* loader.loadConfig()
loadConfigSearch(cwdInNodeModules, existing, content) ==
    loadConfigWith(searchConfigFile(cwdInNodeModules, existing, content).value)


\* ------------------------------------------------------------ observation

\* What the last operation was and what it returned.
ApiObs(op, ok, listed, failed) ==
    [op |-> op, ok |-> ok, listed |-> listed, failed |-> failed]

SelectHooks(flags) ==
    SelectSeq(HookNames, LAMBDA h : flags[h])

\* ------------------------------------------------------------------ index

\* Nothing installed, nothing cached, nothing observed yet.
HooksIdle ==
    /\ binding = [n \in AllNames |-> Orig(n)]
    /\ captured = <<>>
    /\ envInstalled = FALSE
    /\ fsInstalled = FALSE
    /\ fsOrig = [n \in FsNames |-> Nil]
    /\ netInstalled = FALSE
    /\ netOrig = [n \in NetNames |-> Nil]
    /\ cpInstalled = FALSE
    /\ cpOrig = [n \in CpNames |-> Nil]
    /\ httpOrig = [n \in NetNames \ {"net.connect"} |-> Nil]
    /\ signalsArray = "null"
    /\ hooksInstalled = FALSE
    /\ packageCache = <<>>
    /\ gen = 0
    /\ held = Nil
    /\ snap = [n \in AllNames |-> Orig(n)]
    /\ last = ApiObs("start", TRUE, <<>>, <<>>)
    /\ phase = "fresh"
    /\ pending = "none"
    /\ lists = <<>>
    /\ threats = NoThreats
    /\ validation = NotValidated
    /\ loaded = NotLoaded
    /\ report = NoReport
    /\ scores = <<>>

Init ==
    /\ frozen \in FrozenChoices
    /\ monitorDir \in MonitorDirs
    /\ (monitorDir # LibDir) => (frozen = {})
    /\ userConfig = Undefined
    /\ disk = <<>>
    /\ signals = <<>>
    /\ HooksIdle

\* index.init giving up at the first hook that fails to install.
initInstallAbort ==
    /\ gen < MaxInits
    /\ LET g == gen + 1
           e == envHook_install(binding, captured, g)
           f == IF e.ok THEN fsHook_install(e.binding, g)
                ELSE [ok |-> FALSE, binding |-> e.binding, orig |-> fsOrig,
                      installed |-> fsInstalled]
           n == IF f.ok THEN netHook_install(f.binding, g)
                ELSE [ok |-> FALSE, binding |-> f.binding, orig |-> netOrig,
                      installed |-> netInstalled]
           c == IF n.ok THEN childProcHook_install(n.binding, g)
                ELSE [ok |-> FALSE, binding |-> n.binding, orig |-> cpOrig,
                      installed |-> cpInstalled]
           okOf == [h \in Range(HookNames) |->
                       CASE h = "envHook" -> e.ok
                         [] h = "fsHook" -> f.ok
                         [] h = "netHook" -> n.ok
                         [] OTHER -> c.ok]
           installed == SelectHooks(okOf)
           failed == SelectHooks([h \in Range(HookNames) |-> ~okOf[h]])
       IN /\ gen' = g
          /\ snap' = binding
          /\ binding' = c.binding
          /\ captured' = e.captured
          /\ envInstalled' = e.installed
          /\ fsInstalled' = f.installed
          /\ fsOrig' = f.orig
          /\ netInstalled' = n.installed
          /\ netOrig' = n.orig
          /\ cpInstalled' = c.installed
          /\ cpOrig' = c.orig
          /\ hooksInstalled' = (Len(installed) > 0)
          /\ last' = ApiObs("init", Len(installed) > 0, installed, failed)
          /\ phase' = "initialised"
    /\ UNCHANGED <<hostVars, loaded, report, validation, threats, lists, httpVars, signals, packageCache, held,
                   scores>>

\* index.init past its "already initialized" return: the four installs in
\* order.
initInstall ==
    /\ gen < MaxInits
    /\ LET g == gen + 1
           e == envHook_install(binding, captured, g)
           f == fsHook_install(e.binding, g)
           n == netHook_install(f.binding, g)
           c == childProcHook_install(n.binding, g)
           okOf == [h \in Range(HookNames) |->
                       CASE h = "envHook" -> e.ok
                         [] h = "fsHook" -> f.ok
                         [] h = "netHook" -> n.ok
                         [] OTHER -> c.ok]
           installed == SelectHooks(okOf)
           failed == SelectHooks([h \in Range(HookNames) |-> ~okOf[h]])
       IN /\ gen' = g
          /\ snap' = binding
          /\ binding' = c.binding
          /\ captured' = e.captured
          /\ envInstalled' = e.installed
          /\ fsInstalled' = f.installed
          /\ fsOrig' = f.orig
          /\ netInstalled' = n.installed
          /\ netOrig' = n.orig
          /\ cpInstalled' = c.installed
          /\ cpOrig' = c.orig
          /\ hooksInstalled' = (Len(installed) > 0)
          /\ last' = ApiObs("init", Len(installed) > 0, installed, failed)
          /\ phase' = "initialised"
    /\ UNCHANGED <<hostVars, loaded, report, validation, threats, lists, httpVars, signals, packageCache, held, scores>>

\* index.init, called by the application or from monitor().
initCall ==
    IF hooksInstalled
    THEN /\ last' = ApiObs("init", TRUE, <<>>, <<>>)
         /\ phase' = "initialised"
         /\ UNCHANGED <<hostVars, loaded, report, validation, threats, lists, hookVars, httpVars, hooksInstalled, signals,
                        packageCache, held, scores>>
    ELSE initInstall

\* index.init without its "already initialized" return.
initAlways == initInstall /\ UNCHANGED pending

\* index.init called by the application.
init == initCall /\ UNCHANGED pending

\* index.teardown
teardown ==
    LET e == envHook_uninstall
        f == fsHook_uninstall(binding)
        n == netHook_uninstall(f.binding)
        c == childProcHook_uninstall(n.binding)
        okOf == [h \in Range(HookNames) |->
                    CASE h = "envHook" -> e.ok
                      [] h = "fsHook" -> f.ok
                      [] h = "netHook" -> n.ok
                      [] OTHER -> c.ok]
        uninstalled == SelectHooks(okOf)
        failed == SelectHooks([h \in Range(HookNames) |-> ~okOf[h]])
    IN /\ binding' = c.binding
       /\ envInstalled' = (envInstalled /\ e.installed)
       /\ fsInstalled' = f.installed
       /\ netInstalled' = n.installed
       /\ cpInstalled' = c.installed
       /\ hooksInstalled' = FALSE
       /\ signals' = <<>>
       /\ last' = ApiObs("teardown", TRUE, uninstalled, failed)
       /\ phase' = "torn"
       /\ UNCHANGED <<hostVars, loaded, report, validation, threats, lists, pending, httpVars, captured, fsOrig, netOrig, cpOrig,
                      gen, snap, packageCache, held, scores>>

\* httpHook.install(signals), called by the embedding application.
httpHook_install ==
    /\ gen < MaxInits
    /\ LET g == gen + 1
           s0 == [ok |-> TRUE, binding |-> binding, orig |-> httpOrig,
                  captured |-> captured]
           s1 == HttpHookStep(s0, HTTP_FUNCTIONS[1], g)
           s2 == HttpHookStep(s1, HTTP_FUNCTIONS[2], g)
       IN /\ gen' = g
          /\ signalsArray' = "signals"
          /\ binding' = s2.binding
          /\ httpOrig' = s2.orig
          /\ captured' = s2.captured
          /\ last' = ApiObs("httpInstall", s2.ok, <<>>, <<>>)
    /\ UNCHANGED <<hostVars, loaded, report, validation, threats, lists, pending, envInstalled, fsInstalled, fsOrig, netInstalled,
                   netOrig, cpInstalled, cpOrig, snap, hooksInstalled,
                   signals, packageCache, held, scores,
                   phase>>

\* httpHook.uninstall()
httpHook_uninstall ==
    /\ LET s0 == [ok |-> TRUE, binding |-> binding, orig |-> httpOrig,
                  captured |-> captured]
           s1 == HttpUnhookStep(s0, HTTP_FUNCTIONS[1])
           s2 == HttpUnhookStep(s1, HTTP_FUNCTIONS[2])
       IN /\ binding' = s2.binding
          /\ httpOrig' = s2.orig
          /\ signalsArray' = IF s2.ok THEN "null" ELSE signalsArray
          /\ last' = ApiObs("httpUninstall", s2.ok, <<>>, <<>>)
    /\ UNCHANGED <<hostVars, loaded, report, validation, threats, lists, pending, captured, envInstalled, fsInstalled, fsOrig,
                   netInstalled, netOrig, cpInstalled, cpOrig, gen, snap,
                   hooksInstalled, signals, packageCache, held, scores,
                   phase>>

\* Who calls: first-party code, an installed package, a directory under
\* node_modules that holds no manifest.
Callers == {"app", "bar", "ghost"}
Receivers == {"module", "detached"}

\* The calls the actions make; the properties of a single call quantify
\* over CallNames, ArgsOf, OpsOf, Callers and Receivers.
CallNames ==
    {"readFileSync", "writeFile", "exec", "fork", "net.connect",
     "http.request", "https.request", EnvName}
ActNames == {"readFileSync", "writeFile", "exec", "net.connect", EnvName}
HeldNames == {"exec"}
ActOp(name) == IF name = EnvName THEN "get" ELSE "call"

\* A call of name by caller in the current state: through the binding, or
\* through the reference held.
CallResult(caller, name, op, arg, recv, viaHeld) ==
    Invoke(IF viaHeld THEN held ELSE binding[name], op, arg, recv,
           CallerStack(caller), FALSE, 0,
           Machine(signals, packageCache, <<>>))

\* Third-party code keeps a wrapper it read from the API surface
\* (const { exec } = require('child_process')).
Capture(name) ==
    /\ binding[name].kind = "wrap"
    /\ held # binding[name]
    /\ held' = binding[name]
    /\ UNCHANGED <<hostVars, loaded, report, validation, threats, lists, pending, hookVars, httpVars, hooksInstalled, signals,
                   packageCache, last, scores,
                   phase>>

\* Code running on behalf of caller calls name (through the current binding,
\* or through the kept reference).
Call(caller, name, arg, viaHeld) ==
    /\ viaHeld => (held # Nil /\ held.name = name)
    /\ \E r \in { CallResult(caller, name, ActOp(name), arg, "module",
                              viaHeld) } :
          /\ Len(r.sigs) <= MaxSignals
          /\ signals' = r.sigs
          /\ packageCache' = r.cache
    /\ last' = ApiObs("call", TRUE, <<>>, <<>>)
    /\ UNCHANGED <<hostVars, loaded, report, validation, threats, lists, pending, hookVars, httpVars, hooksInstalled, held,
                   scores,
                   phase>>

Next ==
    \/ init
    \/ teardown
    \/ \E name \in HeldNames : Capture(name)
    \/ \E caller \in Callers, name \in ActNames, viaHeld \in BOOLEAN :
          \E arg \in ArgsOf(name) : Call(caller, name, arg, viaHeld)

\* index.getTrustScores
getTrustScores ==
    /\ scores' = calculateAllScores(signals)
    /\ last' = ApiObs("getTrustScores", TRUE, <<>>, <<>>)
    /\ UNCHANGED <<hostVars, loaded, report, validation, threats, lists, pending, hookVars, httpVars, hooksInstalled, signals,
                   packageCache, held,
                   phase>>

Spec == Init /\ [][Next]_vars

\* The application also installs the separate HTTP/HTTPS hook and third-party
\* code makes requests.
NextHttp ==
    \/ init
    \/ teardown
    \/ httpHook_install
    \/ httpHook_uninstall
    \/ \E caller \in Callers, name \in Range(HTTP_FUNCTIONS) :
          \E arg \in ArgsOf(name) : Call(caller, name, arg, FALSE)

SpecHttp == Init /\ [][NextHttp]_vars

\* The signals handed to the scoring engine: every signal type for one
\* package and one type for a second package; the heaviest of them.
ScoreKinds ==
    { createSignal(t, "op", "detail", <<"bar">>, "1.0.0").signal :
        t \in SignalTypes }
    \cup { createSignal("SHELL_EXEC", "op", "detail", <<"baz">>,
                        "unknown").signal }

HeavyKinds ==
    { k \in ScoreKinds : k.type \in {"SHELL_EXEC", "FS_WRITE"} }

ScoreInputs ==
    UNION { [1..n -> HeavyKinds] : n \in 0..MaxScoreLen }
    \cup UNION { [1..n -> ScoreKinds] : n \in 0..MaxMixLen }

\* The scoring engine applied to any buffer content.
InitScore ==
    /\ frozen = {}
    /\ monitorDir = LibDir
    /\ userConfig = Undefined
    /\ disk = <<>>
    /\ signals \in ScoreInputs
    /\ HooksIdle

NextScore == getTrustScores

SpecScore == InitScore /\ [][NextScore]_vars

\* index.monitor up to its await: init, and the throw when init reports no
\* success (the promise is then rejected at once).
monitorStart ==
    /\ pending = "none"
    /\ initCall
    /\ pending' = IF last'.ok THEN "running" ELSE "none"

\* index.monitor with an uninstall and a buffer reset before it settles.
monitorSettleTeardown(threw) ==
    /\ pending = "running"
    /\ pending' = "none"
    /\ scores' = calculateAllScores(signals)
    /\ last' = ApiObs("monitor", ~threw, <<>>, <<>>)
    /\ hooksInstalled' = FALSE
    /\ signals' = <<>>
    /\ UNCHANGED <<hostVars, loaded, report, validation, threats, lists, hookVars, httpVars, packageCache, held, phase>>

\* index.monitor after its await: the function has returned or thrown, the
\* report is generated from the buffer and the promise settles (rejected
\* with the function's error when it threw).
monitorSettle(threw) ==
    /\ pending = "running"
    /\ pending' = "none"
    /\ scores' = calculateAllScores(signals)
    /\ last' = ApiObs("monitor", ~threw, <<>>, <<>>)
    /\ UNCHANGED <<hostVars, loaded, report, validation, threats, lists, hookVars, httpVars, hooksInstalled, signals,
                   packageCache, held, phase>>

\* The application runs functions under monitor(); the function makes calls
\* into the platform while monitor awaits it, and the application calls
\* teardown between two monitor() calls.
NextMonitor ==
    \/ monitorStart
    \/ \E threw \in BOOLEAN : monitorSettle(threw)
    \/ pending = "none" /\ teardown
    \/ \E caller \in Callers, name \in ActNames :
          \E arg \in ArgsOf(name) :
             pending = "running" /\ Call(caller, name, arg, FALSE)

SpecMonitor == Init /\ [][NextMonitor]_vars

\* An array a holder got from getSignals: which array object it is (a copy
\* made for the holder, or the buffer itself) and, for a copy, its elements
\* as references to the signal objects of the buffer (their index; 0 is an
\* object of the holder's own).
HeldList(array, elems) == [array |-> array, elems |-> elems]

\* The elements a holder sees in its array when the buffer holds sigs.
ListContentOf(l, sigs) ==
    IF l.array = "buffer" THEN [i \in 1..Len(sigs) |-> i] ELSE l.elems

ListContent(l) == ListContentOf(l, signals)

\* index.getSignals returning the buffer array itself.
getSignalsAlias ==
    /\ Len(lists) < MaxLists
    /\ lists' = Append(lists, HeldList("buffer", <<>>))
    /\ last' = ApiObs("getSignals", TRUE, <<>>, <<>>)
    /\ UNCHANGED <<hostVars, loaded, report, validation, threats, pending, hookVars, httpVars, hooksInstalled,
                   signals, packageCache, held, phase, scores>>

\* index.getSignals: [...signals], a new array with the same signal objects.
getSignals ==
    /\ Len(lists) < MaxLists
    /\ lists' = Append(lists,
                       HeldList("copy", [i \in 1..Len(signals) |-> i]))
    /\ last' = ApiObs("getSignals", TRUE, <<>>, <<>>)
    /\ UNCHANGED <<hostVars, loaded, report, validation, threats, pending, hookVars, httpVars, hooksInstalled,
                   signals, packageCache, held, phase, scores>>

\* What a holder pushes on an array: an object of its own making.
ForgedSignal ==
    [type |-> "FS_READ", package |-> <<"forged">>, version |-> "0.0.0",
     op |-> "op", detail |-> "detail"]

\* The holder of array k calls pop() on it.
ListPop(k) ==
    /\ k \in 1..Len(lists)
    /\ Len(ListContent(lists[k])) > 0
    /\ IF lists[k].array = "buffer"
       THEN /\ signals' = SubSeq(signals, 1, Len(signals) - 1)
            /\ lists' = lists
       ELSE /\ lists' = [lists EXCEPT ![k].elems =
                            SubSeq(@, 1, Len(@) - 1)]
            /\ signals' = signals
    /\ last' = ApiObs("list", TRUE, <<>>, <<>>)
    /\ UNCHANGED <<hostVars, loaded, report, validation, threats, pending, hookVars, httpVars, hooksInstalled,
                   packageCache, held, phase, scores>>

\* The holder of array k calls push(obj) on it.
ListPush(k) ==
    /\ k \in 1..Len(lists)
    /\ Len(ListContent(lists[k])) < MaxSignals
    /\ IF lists[k].array = "buffer"
       THEN /\ signals' = Append(signals, ForgedSignal)
            /\ lists' = lists
       ELSE /\ lists' = [lists EXCEPT ![k].elems = Append(@, 0)]
            /\ signals' = signals
    /\ last' = ApiObs("list", TRUE, <<>>, <<>>)
    /\ UNCHANGED <<hostVars, loaded, report, validation, threats, pending, hookVars, httpVars, hooksInstalled,
                   packageCache, held, phase, scores>>

\* The own properties Object.freeze(signal) makes read-only, and the
\* properties of the metadata object the signal refers to, which is not
\* frozen.
FrozenFields == {"type", "package", "version"}
MetadataFields == {"op", "detail"}

\* The holder of array k assigns to a property of its j-th element, or of
\* that element's metadata: list[j].type = v, list[j].metadata.path = v.
\* An assignment to a frozen property changes nothing.
HolderAssign(k, j, field) ==
    /\ field \in FrozenFields \cup MetadataFields
    /\ k \in 1..Len(lists)
    /\ j \in 1..Len(ListContent(lists[k]))
    /\ ListContent(lists[k])[j] \in 1..Len(signals)
    /\ signals' = IF field \in FrozenFields THEN signals
                  ELSE [signals EXCEPT
                          ![ListContent(lists[k])[j]][field] = "tampered"]
    /\ last' = ApiObs("assign", field \notin FrozenFields, <<>>, <<>>)
    /\ UNCHANGED <<hostVars, loaded, report, validation, threats, lists, pending, hookVars, httpVars,
                   hooksInstalled, packageCache, held, phase, scores>>

\* The application takes snapshots of the buffer while third-party code makes
\* intercepted calls; the holder of the first snapshot changes that array,
\* and any holder assigns to a field of an element (type) or of its
\* metadata (detail).
NextHolder ==
    \/ init
    \/ \E arg \in ArgsOf("exec") : Call("bar", "exec", arg, FALSE)
    \/ getSignals
    \/ ListPop(1)
    \/ ListPush(1)
    \/ \E k \in 1..MaxLists, j \in 1..MaxSignals :
          \E field \in {"type", "detail"} : HolderAssign(k, j, field)

InitHolder ==
    /\ frozen = {}
    /\ monitorDir = LibDir
    /\ userConfig = Undefined
    /\ disk = <<>>
    /\ signals = <<>>
    /\ HooksIdle

SpecHolder == InitHolder /\ [][NextHolder]_vars

\* The signals handed to the pattern analyzer, as the hooks build them for
\* packages bar and baz: commands, paths, variables and host/port as token
\* sequences.
PatternSignal(name, op, detail, pkg) ==
    createSignal(SignalTypeOf(name), op, detail, <<pkg>>, "1.0.0").signal

PatternKinds ==
    { PatternSignal("exec", "exec", <<"XMRig", "-o">>, "bar"),
      PatternSignal("exec", "exec", <<"nc -e", "/bin/sh">>, "bar"),
      PatternSignal("exec", "exec", <<"NGROK", "http">>, "bar"),
      PatternSignal("exec", "exec", <<"echo", "hi">>, "baz"),
      PatternSignal("readFileSync", "readFileSync",
                    <<"~", ".aws/credentials">>, "bar"),
      PatternSignal("readFileSync", "readFileSync", <<".env">>, "baz"),
      PatternSignal(EnvName, "env", <<"NPM_TOKEN">>, "bar"),
      PatternSignal(EnvName, "env", <<"MINER_POOL">>, "bar"),
      PatternSignal("net.connect", "tcp", <<"example.com", "4444">>, "bar"),
      PatternSignal("http.request", "http", <<"pastebin", "80">>, "bar") }

PatternInputs == UNION { [1..n -> PatternKinds] : n \in 0..MaxPatternLen }

PatternConfigs ==
    [enabled : BOOLEAN, detectCryptoMiners : BOOLEAN,
     detectDataExfiltration : BOOLEAN, detectBackdoors : BOOLEAN]

\* The application runs the pattern analyzer on the buffer.
analyze(config) ==
    /\ threats' = analyzePatterns(signals, config)
    /\ last' = ApiObs("analyzePatterns", TRUE, <<>>, <<>>)
    /\ UNCHANGED <<hostVars, loaded, report, validation, lists, pending, hookVars, httpVars,
                   hooksInstalled, signals, packageCache, held, phase,
                   scores>>

InitPattern ==
    /\ frozen = {}
    /\ monitorDir = LibDir
    /\ userConfig = Undefined
    /\ disk = <<>>
    /\ signals \in PatternInputs
    /\ HooksIdle

NextPattern == \E config \in PatternConfigs : analyze(config)

SpecPattern == InitPattern /\ [][NextPattern]_vars

\* The configurations handed to validateConfig: each section absent, well
\* formed, or wrong in one way.
HookChoices ==
    { Undefined,
      Obj(<<Entry("env", Bool(FALSE))>>),
      Obj(<<Entry("env", Str(TRUE))>>),
      Obj(<<Entry("bogus", Bool(TRUE))>>) }

WeightChoices ==
    { Undefined,
      Obj(<<Entry("SHELL_EXEC", Num(20))>>),
      Obj(<<Entry("BOGUS", Num(5))>>),
      Obj(<<Entry("FS_READ", Num(101))>>),
      Obj(<<Entry("FS_READ", Num(-1))>>),
      Obj(<<Entry("FS_READ", NotANumber)>>) }

ThresholdValues == {Undefined, Num(30), Num(60), Num(101)}

ThresholdChoices ==
    { Undefined }
    \cup { Obj(<<Entry("critical", c), Entry("high", h), Entry("medium", m)>>) :
             c \in ThresholdValues, h \in ThresholdValues,
             m \in ThresholdValues }

ListChoices == {Undefined, Arr, Str(TRUE), Str(FALSE)}

PerformanceChoices ==
    { Undefined,
      Obj(<<Entry("maxSignals", Num(10000))>>),
      Obj(<<Entry("maxSignals", Num(0))>>),
      Obj(<<Entry("maxSignals", Num(-5))>>) }

ConfigInputs ==
    { Obj(<<Entry("hooks", h), Entry("riskWeights", w),
            Entry("thresholds", t), Entry("whitelist", wl),
            Entry("blacklist", bl), Entry("performance", pf)>>) :
        h \in HookChoices, w \in WeightChoices, t \in ThresholdChoices,
        wl \in ListChoices, bl \in {Undefined, Str(TRUE)},
        pf \in PerformanceChoices }

\* The application validates its configuration.
validate ==
    /\ validation' = validateConfig(userConfig)
    /\ last' = ApiObs("validateConfig", TRUE, <<>>, <<>>)
    /\ UNCHANGED <<hostVars, loaded, report, threats, lists, pending, hookVars, httpVars,
                   hooksInstalled, signals, packageCache, held, phase,
                   scores>>

InitConfig ==
    /\ frozen = {}
    /\ monitorDir = LibDir
    /\ userConfig \in ConfigInputs
    /\ disk = <<>>
    /\ signals = <<>>
    /\ HooksIdle

NextConfig == validate

SpecConfig == InitConfig /\ [][NextConfig]_vars

\* Configurations that switch hooks off, handed to init as its options.
ToggleConfigs ==
    { Obj(<<Entry("hooks",
                  Obj(<<Entry("env", Bool(e)), Entry("fs", Bool(f)),
                        Entry("net", Bool(TRUE)),
                        Entry("childProcess", Bool(c))>>))>>) :
        e \in BOOLEAN, f \in BOOLEAN, c \in BOOLEAN }

InitToggle ==
    /\ frozen = {}
    /\ monitorDir = LibDir
    /\ userConfig \in ToggleConfigs
    /\ disk = <<>>
    /\ signals = <<>>
    /\ HooksIdle

\* The application calls init(userConfig) and teardown; third-party code
\* makes calls.
NextToggle ==
    \/ init
    \/ teardown
    \/ \E name \in {"readFileSync", "exec", EnvName} :
          \E arg \in ArgsOf(name) : Call("bar", name, arg, FALSE)

SpecToggle == InitToggle /\ [][NextToggle]_vars

\* Command lines with a credential, as third-party code passes them to the
\* child_process functions: the values hunter2 and "my secret" are the
\* credentials.
Assign(flag, flagLen, val, valLen) == Word(flag, flagLen, TRUE, val, valLen)

SecretValues == {"hunter2", "my", "secret"}

CommandInputs ==
    { CommandArgs(<<Plain("tool", 4), Assign("--password", 10, "hunter2", 7)>>,
                  FALSE, <<>>),
      CommandArgs(<<Plain("tool", 4)>>, TRUE,
                  << <<Assign("--password", 10, "my", 2),
                       Plain("secret", 6)>> >>),
      CommandArgs(<<Plain("tool", 4), Plain("<padding>", 185)>>, TRUE,
                  << <<Assign("API_KEY", 7, "hunter2", 7)>> >>),
      CommandArgs(<<Plain("tool", 4)>>, TRUE,
                  << <<Plain("--PASSWORD", 10)>>, <<Plain("hunter2", 7)>> >>),
      CommandArgs(<<Plain("worker.js", 9)>>, TRUE,
                  << <<Assign("NPM_TOKEN", 9, "hunter2", 7)>> >>) }

InitCommand ==
    /\ frozen = {}
    /\ monitorDir = LibDir
    /\ userConfig = Undefined
    /\ disk = <<>>
    /\ signals = <<>>
    /\ HooksIdle

\* The application calls init and teardown; package bar runs commands.
NextCommand ==
    \/ init
    \/ teardown
    \/ \E name \in CpNames, args \in CommandInputs :
          Call("bar", name, args, FALSE)

SpecCommand == InitCommand /\ [][NextCommand]_vars

\* The signals handed to the report: the signal objects createSignal builds,
\* with metadata as the hooks (and httpHook) write it, strings of up to 700
\* characters, one first-party signal and one without a metadata object.
ReportSignal(type, package, metadata) ==
    [timestamp |-> "t", type |-> type, package |-> package,
     version |-> "1.0.0", metadata |-> metadata, stackTrace |-> "stack"]

MetaString(text, len) == MetaValue("string", text, len)

ReportKinds ==
    { ReportSignal("ENV_ACCESS", <<"bar">>,
          Metadata(TRUE, <<MetaEntry("variable", MetaString("FOO", 3))>>)),
      ReportSignal("SHELL_EXEC", <<"bar">>,
          Metadata(TRUE, <<MetaEntry("command", MetaString("long", 700)),
                           MetaEntry("operation", MetaString("exec", 4))>>)),
      ReportSignal("NET_CONNECT", <<"bar">>,
          Metadata(TRUE, <<MetaEntry("url", MetaString("http://h/x", 10)),
                           MetaEntry("host", MetaString("h", 1)),
                           MetaEntry("port", MetaValue("number", "", 8080)),
                           MetaEntry("headers", MetaValue("object", "", 0)),
                           MetaEntry("protocol", MetaString("http", 4))>>)),
      ReportSignal("FS_READ", <<>>,
          Metadata(TRUE, <<MetaEntry("path", MetaString("/tmp/x", 6)),
                           MetaEntry("operation",
                                     MetaString("readFileSync", 12))>>)),
      ReportSignal("FS_READ", <<"baz">>,
          Metadata(TRUE, <<MetaEntry("operation",
                                     MetaString("readFileSync", 12)),
                           MetaEntry("path", MetaString("deep", 500)),
                           MetaEntry("stack", MetaString("at f", 501))>>)),
      ReportSignal("FS_WRITE", <<"baz">>,
          Metadata(TRUE, <<MetaEntry("path", MetaString("deeper", 501)),
                           MetaEntry("operation",
                                     MetaValue("undefined", "", 0))>>)),
      ReportSignal("ENV_ACCESS", <<"baz">>, Metadata(FALSE, <<>>)) }

ReportInputs ==
    UNION { [1..n -> ReportKinds] : n \in 0..MaxReportLen }

\* index.generateReport('json')
generateReport ==
    /\ report' = formatReport(calculateAllScores(signals), signals)
    /\ last' = ApiObs("generateReport", TRUE, <<>>, <<>>)
    /\ UNCHANGED <<hostVars, loaded, validation, threats, lists, pending,
                   hookVars, httpVars, hooksInstalled, signals, packageCache,
                   held, phase, scores>>

InitReport ==
    /\ frozen = {}
    /\ monitorDir = LibDir
    /\ userConfig = Undefined
    /\ disk = <<>>
    /\ signals \in ReportInputs
    /\ HooksIdle

NextReport == generateReport

SpecReport == InitReport /\ [][NextReport]_vars

\* The host rewrites a package's manifest (an upgrade in place) or removes
\* it while the process runs.
ManifestEdits == {"1.0.1", "removed"}

EditManifest(dir, content) ==
    /\ disk' = (dir :> content) @@ disk
    /\ UNCHANGED <<frozen, monitorDir, userConfig, loaded, report, validation,
                   threats, lists, pending, hookVars, httpVars,
                   hooksInstalled, signals, packageCache, held, phase,
                   scores, last>>

InitCache ==
    /\ frozen = {}
    /\ monitorDir = LibDir
    /\ userConfig = Undefined
    /\ disk = <<>>
    /\ signals = <<>>
    /\ HooksIdle

\* The application calls init and teardown, packages bar and b (nested
\* under a) run commands and read the environment, and the host edits bar's
\* manifest.
NextCache ==
    \/ init
    \/ teardown
    \/ \E caller \in {"bar", "nested"}, name \in {"exec", EnvName} :
          \E arg \in ArgsOf(name) : Call(caller, name, arg, FALSE)
    \/ \E content \in ManifestEdits :
          EditManifest(<<"app", "node_modules", "bar">>, content)

SpecCache == InitCache /\ [][NextCache]_vars

\* ------------------------------------------------------- loading a config
LoadInputs ==
    { Undefined }
    \cup { Obj(<<Entry("hooks", h), Entry("riskWeights", w),
                 Entry("thresholds", t)>>) :
             h \in {Undefined, Obj(<<Entry("env", Bool(FALSE))>>)},
             w \in {Undefined, Obj(<<Entry("SHELL_EXEC", Num(20))>>),
                    Obj(<<Entry("BOGUS", Num(5))>>)},
             t \in ThresholdChoices }

ConfigFiles ==
    { ConfigFile(nm, ext, parses) :
        nm \in BOOLEAN, ext \in {".json", "", ".js", ".yaml"},
        parses \in BOOLEAN }

\* The configuration files of the working directory: which exist, and
\* whether each parses.
ExistingChoices ==
    { <<>>,
      [f \in {".bheeshmarc.json"} |-> TRUE],
      [f \in {".bheeshmarc.json", ".bheeshmarc"} |-> f = ".bheeshmarc"],
      [f \in {"bheeshma.config.js"} |-> TRUE],
      [f \in {"bheeshma.config.json", "bheeshma.config.js"} |-> FALSE] }

\* The application loads the configuration object it has.
loadFromObject ==
    /\ loaded' = LoadObs("loadConfigFromObject", [kind |-> "object"],
                         loadConfigFromObject(userConfig))
    /\ last' = ApiObs("loadConfigFromObject", TRUE, <<>>, <<>>)
    /\ UNCHANGED <<hostVars, validation, report, threats, lists, pending,
                   hookVars, httpVars, hooksInstalled, signals, packageCache,
                   held, phase, scores>>

\* The application loads the configuration file at a path; the file holds
\* the user's configuration.
loadFromPath(file) ==
    /\ loaded' = LoadObs("loadConfig", [kind |-> "path", file |-> file],
                         loadConfigPath(file, userConfig))
    /\ last' = ApiObs("loadConfig", TRUE, <<>>, <<>>)
    /\ UNCHANGED <<hostVars, validation, report, threats, lists, pending,
                   hookVars, httpVars, hooksInstalled, signals, packageCache,
                   held, phase, scores>>

\* The application lets the loader find the configuration file in the
\* working directory.
loadBySearch(cwdInNodeModules, existing) ==
    /\ loaded' = LoadObs("loadConfig",
                         [kind |-> "search",
                          cwdInNodeModules |-> cwdInNodeModules,
                          found |-> searchConfigFile(cwdInNodeModules,
                                                     existing,
                                                     userConfig).found],
                         loadConfigSearch(cwdInNodeModules, existing,
                                          userConfig))
    /\ last' = ApiObs("loadConfig", TRUE, <<>>, <<>>)
    /\ UNCHANGED <<hostVars, validation, report, threats, lists, pending,
                   hookVars, httpVars, hooksInstalled, signals, packageCache,
                   held, phase, scores>>

InitLoad ==
    /\ frozen = {}
    /\ monitorDir = LibDir
    /\ userConfig \in LoadInputs
    /\ disk = <<>>
    /\ signals = <<>>
    /\ HooksIdle

NextLoad ==
    \/ loadFromObject
    \/ \E file \in ConfigFiles : loadFromPath(file)
    \/ \E nm \in BOOLEAN, existing \in ExistingChoices :
          loadBySearch(nm, existing)

SpecLoad == InitLoad /\ [][NextLoad]_vars


\* ------------------------------------------------- scoring a configuration
WeightConfigs ==
    { Obj(<<Entry("riskWeights",
                  Obj(<<Entry("SHELL_EXEC", Num(w)),
                        Entry("ENV_ACCESS", Num(e))>>))>>) :
        w \in {20, 50}, e \in {5, 0} }

InitWeights ==
    /\ frozen = {}
    /\ monitorDir = LibDir
    /\ userConfig \in WeightConfigs
    /\ disk = <<>>
    /\ signals = <<>>
    /\ HooksIdle

\* The application calls init(userConfig), teardown and getTrustScores;
\* third-party code makes calls.
NextWeights ==
    \/ init
    \/ teardown
    \/ getTrustScores
    \/ \E name \in {"exec", EnvName} :
          \E arg \in ArgsOf(name) : Call("bar", name, arg, FALSE)

SpecWeights == InitWeights /\ [][NextWeights]_vars

\* ------------------------------------------------------------ properties

\* The platform functions a call reached directly (not from inside the
\* resolver's manifest read).
TopForwards(r) == SelectSeq(r.fwd, LAMBDA f : ~f.nested)

\* What was invoked, without the buffer length seen at that moment.
Invocation(f) ==
    [name |-> f.name, op |-> f.op, arg |-> f.arg, recv |-> f.recv,
     nested |-> f.nested]

RECURSIVE SumWeights(_)
SumWeights(sigs) ==
    IF sigs = <<>> THEN 0
    ELSE RISK_WEIGHTS[Head(sigs).type] + SumWeights(Tail(sigs))

\* The buffered signals of one score entry.
GroupOf(entry) == SelectSeq(signals, LAMBDA sg : ScoreKey(sg) = entry.key)

Max0(n) == IF n < 0 THEN 0 ELSE n

\* C1: init is idempotent. An init called while hooks are installed returns
\* success, installs nothing (empty installed list, no new wrapper), and
\* leaves every binding, every hook's installed flag and the signal buffer
\* unchanged.
C1_InitIdempotent ==
    [][(hooksInstalled /\ init) =>
          /\ last'.ok /\ last'.listed = <<>>
          /\ gen' = gen
          /\ binding' = binding
          /\ <<envInstalled', fsInstalled', netInstalled', cpInstalled'>>
                = <<envInstalled, fsInstalled, netInstalled, cpInstalled>>
          /\ hooksInstalled'
          /\ signals' = signals]_vars

\* A second init has returned while hooks are installed and the buffer holds
\* signals.
C1_Witness ==
    /\ hooksInstalled
    /\ last.op = "init" /\ last.ok /\ last.listed = <<>>
    /\ signals # <<>>

\* C2: install/uninstall round trip. Right after teardown every binding a
\* hook wrapped (fs, net, http, https, child_process, process.env) is the
\* reference it was before the init that installed the hooks.
C2_RoundTrip ==
    last.op = "teardown" => \A n \in AllNames : binding[n] = snap[n]

\* C3: after teardown and until the next init, no intercepted call appends a
\* signal: the buffer stays empty.
C3_SilentAfterTeardown ==
    phase = "torn" => signals = <<>>

\* C4: teardown, called in any state, returns success with all four hooks
\* listed as uninstalled, and the buffer is empty immediately afterwards.
C4_TeardownSucceeds ==
    last.op = "teardown" =>
        /\ last.ok
        /\ last.listed = HookNames
        /\ last.failed = <<>>
        /\ signals = <<>>

\* teardown has returned after an init whose hooks had recorded calls.
C4_Witness ==
    /\ last.op = "teardown"
    /\ gen > 0
    /\ packageCache # <<>>

\* C5: every signal in the buffer has a non-absent package.
C5_SignalsAttributed ==
    \A i \in 1..Len(signals) : signals[i].package # <<>>

\* The buffer holds signals, the last operation was an intercepted call, and
\* a call whose attribution is absent (a node_modules directory without a
\* manifest) goes through a wrapper and appends nothing.
C5_Witness ==
    /\ signals # <<>>
    /\ last.op = "call"
    /\ binding["exec"].kind = "wrap"
    /\ monitorDir = LibDir
    /\ CallResult("ghost", "exec", "call", EchoHi, "module", FALSE).sigs
          = signals

\* C6: an intercepted call made by first-party code appends no signal,
\* wherever the monitor's own source files are located.
C6_FirstPartySilent ==
    \A name \in CallNames : \A op \in OpsOf(name), arg \in ArgsOf(name) :
        CallResult("app", name, op, arg, "module", FALSE).sigs = signals

\* C7: a call of any wrapper installed by init invokes the original exactly
\* once, with the same arguments and receiver, and yields the original's
\* return value or thrown error.
C7_ForwardsOnce ==
    \A caller \in Callers, name \in CallNames, recv \in Receivers :
      \A op \in OpsOf(name), arg \in ArgsOf(name) :
        (binding[name].kind = "wrap" /\ binding[name].hook # "http") =>
            \A r \in { CallResult(caller, name, op, arg, recv, FALSE) } :
                /\ [i \in DOMAIN TopForwards(r) |->
                        Invocation(TopForwards(r)[i])]
                      = << [name |-> name, op |-> op, arg |-> arg,
                            recv |-> recv, nested |-> FALSE] >>
                /\ r.res = OrigOutcome(name, arg)

\* C8: a call of the request wrapper installed by httpHook invokes the
\* original request function with the same arguments and yields its result,
\* whatever parsing, attribution and signal construction do.
C8_HttpHookSwallows ==
    \A caller \in Callers, name \in Range(HTTP_FUNCTIONS) :
      \A arg \in ArgsOf(name) :
        (binding[name].kind = "wrap" /\ binding[name].hook = "http") =>
            \A r \in { CallResult(caller, name, "call", arg, "module",
                                   FALSE) } :
                /\ \E i \in 1..Len(r.fwd) :
                      r.fwd[i].name = name /\ r.fwd[i].arg = arg
                /\ r.res = OrigOutcome(name, arg)

\* C9: every trust score getTrustScores returns is an integer in [0,100].
C9_ScoreInRange ==
    \A i \in 1..Len(scores) : scores[i].score \in 0..100

\* getTrustScores has scored a package whose weights sum above 100.
C9_Witness ==
    /\ last.op = "getTrustScores"
    /\ \E i \in 1..Len(scores) :
          scores[i].score = 0 /\ SumWeights(GroupOf(scores[i])) > 100

\* C10: a package's score is max(0, 100 - the sum of the weights of its
\* signals); three SHELL_EXEC and two FS_WRITE signals give 20, CRITICAL.
C10_ScoreClosedForm ==
    last.op = "getTrustScores" =>
        \A i \in 1..Len(scores) :
            /\ scores[i].score
                  = Max0(100 - SumWeights(GroupOf(scores[i])))
            /\ ( /\ scores[i].signalCount = 5
                 /\ scores[i].stats["SHELL_EXEC"] = 3
                 /\ scores[i].stats["FS_WRITE"] = 2 )
               => ( /\ scores[i].score = 20
                    /\ getRiskLevel(scores[i].score) = "CRITICAL" )

\* getTrustScores has scored a package whose seven signals run below the
\* floor before the last one: the loop stopped early.
C10_Witness ==
    /\ last.op = "getTrustScores"
    /\ \E i \in 1..Len(scores) :
          /\ scores[i].signalCount = 7
          /\ SumWeights(SubSeq(GroupOf(scores[i]), 1, 6)) > 100
          /\ scores[i].score = 0

\* The entries of a scoring result, without their order.
ByKey(result) ==
    { [key |-> result[i].key, score |-> result[i].score,
       signalCount |-> result[i].signalCount, stats |-> result[i].stats] :
        i \in 1..Len(result) }

\* The permutations of 1..n.
Perms(n) ==
    { f \in [1..n -> 1..n] : \A i, j \in 1..n : f[i] = f[j] => i = j }

\* sigs with the elements at i and j exchanged.
Swapped(sigs, i, j) ==
    [k \in 1..Len(sigs) |->
        IF k = i THEN sigs[j] ELSE IF k = j THEN sigs[i] ELSE sigs[k]]

\* C11: scoring is order-independent. Every permutation of the buffer gives
\* every package the same score, signalCount and stats: checked for every
\* exchange of two elements of every buffer (the exchanges generate the
\* permutations), and for every permutation of the short buffers.
C11_ScoreOrderIndependent ==
    last.op = "getTrustScores" =>
        /\ \A i, j \in 1..Len(signals) :
              ByKey(calculateAllScores(Swapped(signals, i, j)))
                = ByKey(scores)
        /\ Len(signals) <= MaxMixLen =>
              \A f \in Perms(Len(signals)) :
                 ByKey(calculateAllScores(
                          [k \in 1..Len(signals) |-> signals[f[k]]]))
                   = ByKey(scores)

\* getTrustScores has scored a buffer of two packages whose order matters to
\* the loop: it runs below the floor and holds signals of different weight.
C11_Witness ==
    /\ last.op = "getTrustScores"
    /\ Len(scores) = 2
    /\ \E i \in 1..Len(scores) :
          /\ scores[i].score = 0
          /\ scores[i].stats["SHELL_EXEC"] > 0
          /\ scores[i].stats["FS_WRITE"] > 0

\* The default weights as documented, by signal type.
DocumentedWeights ==
    [SHELL_EXEC |-> 20, FS_WRITE |-> 10, HTTP_REQUEST |-> 10,
     NET_CONNECT |-> 8, HTTPS_REQUEST |-> 8, ENV_ACCESS |-> 5, FS_READ |-> 3]

\* C12: with the default weights, one more signal of a type lowers its
\* package's score (above the floor) by that type's weight: SHELL_EXEC 20,
\* FS_WRITE 10, HTTP_REQUEST 10, NET_CONNECT 8, HTTPS_REQUEST 8, ENV_ACCESS 5,
\* FS_READ 3.
C12_DefaultWeights ==
    last.op = "getTrustScores" =>
        \A i \in 1..Len(scores), t \in DOMAIN DocumentedWeights :
            scores[i].score >= DocumentedWeights[t] =>
                \A s \in { createSignal(t, "op", "detail", scores[i].name,
                                        scores[i].version) } :
                    /\ s.ok
                    /\ calculateTrustScore(
                          Append(GroupOf(scores[i]), s.signal))
                         = scores[i].score - DocumentedWeights[t]

\* How severe a tier is.
Severity(tier) ==
    CASE tier = "LOW" -> 0
      [] tier = "MEDIUM" -> 1
      [] tier = "HIGH" -> 2
      [] tier = "CRITICAL" -> 3

\* C13: getRiskLevel maps every score in [0,100] to exactly one tier, LOW iff
\* score >= 80, MEDIUM iff 60 <= score < 80, HIGH iff 30 <= score < 60,
\* CRITICAL iff score < 30, and a lower score never gives a less severe tier
\* (stated for each score and the one below it, and for every pair of scores
\* getTrustScores returned).
C13_RiskTiers ==
    /\ \A s \in 0..100 :
          /\ getRiskLevel(s) \in {"LOW", "MEDIUM", "HIGH", "CRITICAL"}
          /\ getRiskLevel(s) = "LOW" <=> s >= 80
          /\ getRiskLevel(s) = "MEDIUM" <=> (60 <= s /\ s < 80)
          /\ getRiskLevel(s) = "HIGH" <=> (30 <= s /\ s < 60)
          /\ getRiskLevel(s) = "CRITICAL" <=> s < 30
    /\ \A s \in 1..100 :
          Severity(getRiskLevel(s - 1)) >= Severity(getRiskLevel(s))
    /\ \A i, j \in 1..Len(scores) :
          scores[i].score <= scores[j].score =>
             Severity(getRiskLevel(scores[i].score))
               >= Severity(getRiskLevel(scores[j].score))

\* getTrustScores has scored one package exactly at the LOW threshold and
\* another below the HIGH threshold.
C13_Witness ==
    /\ last.op = "getTrustScores"
    /\ \E i, j \in 1..Len(scores) :
          /\ scores[i].score = 80
          /\ getRiskLevel(scores[i].score) = "LOW"
          /\ scores[j].score < 30
          /\ getRiskLevel(scores[j].score) = "CRITICAL"


BarDir == <<"app", "node_modules", "bar">>

\* C15: with all hooks installed and package bar not seen before, a single
\* call readFileSync("/tmp/x") from a file under node_modules/bar appends
\* exactly one signal (FS_READ, package bar, path "/tmp/x", operation
\* readFileSync); the resolver's read of bar's manifest adds no signal.
C15_ManifestReadSilent ==
    ( /\ hooksInstalled
      /\ envInstalled /\ fsInstalled /\ netInstalled /\ cpInstalled
      /\ BarDir \notin DOMAIN packageCache )
    => \A r \in { CallResult("bar", "readFileSync", "call", "/tmp/x",
                              "module", FALSE) } :
          r.sigs = Append(signals,
                          createSignal("FS_READ", "readFileSync", "/tmp/x",
                                       <<"bar">>, "1.0.0").signal)


NestedDir == <<"app", "node_modules", "a", "node_modules", "b">>

\* C16: when a path holds several node_modules segments, attribution uses
\* the rightmost one: a call from a file under
\* node_modules/a/node_modules/b is attributed to package b, whose directory
\* is .../node_modules/a/node_modules/b.
C16_RightmostNodeModules ==
    (hooksInstalled /\ cpInstalled /\ binding["exec"].kind = "wrap") =>
        \A r \in { CallResult("nested", "exec", "call", EchoHi, "module",
                              FALSE) } :
           /\ Len(r.sigs) > Len(signals)
           /\ r.sigs[Len(r.sigs)].package = <<"b">>
           /\ r.sigs[Len(r.sigs)].version = "4.0.0"
           /\ NestedDir \in DOMAIN r.cache


\* Call stacks handed to the attribution engine: frames of a package with a
\* manifest, without one, with a malformed one and with one that has no
\* version; a frame without a path; paths that end at node_modules or at a
\* scope.
PkgFile(name) == <<"app", "node_modules", name, "index.js">>

AttrStacks ==
    { <<AppFile>>,
      <<PkgFile("bar"), AppFile>>,
      <<PkgFile("ghost"), AppFile>>,
      <<PkgFile("ghost"), PkgFile("bar"), AppFile>>,
      <<PkgFile("broken"), AppFile>>,
      <<PkgFile("broken"), PkgFile("bar"), AppFile>>,
      <<PkgFile("noversion"), PkgFile("bar")>>,
      <<<<>>, PkgFile("bar")>>,
      <<<<"app", "node_modules">>, PkgFile("bar")>>,
      <<<<"app", "node_modules", "@acme">>, PkgFile("bar")>>,
      <<<<"app", "node_modules", "@acme", "pkg", "index.js">>, AppFile>> }

\* The package directory a frame's path names, <<>> when it names none.
FrameDir(path) ==
    IF NodeModulesIndex(path) = 0 THEN <<>>
    ELSE IF PackageOfPath(path, NodeModulesIndex(path)).ok
    THEN PackageOfPath(path, NodeModulesIndex(path)).dir
    ELSE <<>>

\* The manifest of dir cannot be had in the current state: it names no
\* package, or is not cached and is missing, malformed, or its read raises.
Unresolvable(dir) ==
    \/ dir = <<>>
    \/ /\ dir \notin DOMAIN packageCache
       /\ \/ ManifestOnDisk(dir).state # "ok"
          \/ Invoke(binding["readFileSync"], "call", ManifestPath(dir),
                    "module", <<ResolverFile>>, TRUE, 1,
                    Machine(signals, packageCache, <<>>)).res
                # "return:orig"

\* C17: the attribution engine never raises. For every stack and every state
\* of the filesystem (manifest missing, unreadable, malformed, frame without
\* a path) it returns an identity (name, version, directory) or absent; a
\* frame whose manifest cannot be had is skipped and the next frame is
\* tried, so the identity is that of the first frame whose manifest can be
\* had, and the result is absent only when there is no such frame.
C17_AttributionTotal ==
    \A st \in AttrStacks :
      \A r \in { resolveCurrentStack(st, 0,
                                     Machine(signals, packageCache, <<>>)) } :
        IF r.attr = NoAttr
        THEN \A i \in 1..Len(st) : Unresolvable(FrameDir(st[i]))
        ELSE /\ r.attr.name # <<>>
             /\ r.attr.version # ""
             /\ \E j \in 1..Len(st) :
                   /\ r.attr.path = FrameDir(st[j])
                   /\ r.attr.name
                         = PackageOfPath(st[j], NodeModulesIndex(st[j])).name
                   /\ r.attr.version
                         = (IF ManifestOnDisk(r.attr.path).version = ""
                            THEN "unknown"
                            ELSE ManifestOnDisk(r.attr.path).version)
                   /\ \A i \in 1..(j - 1) : Unresolvable(FrameDir(st[i]))


\* The engine is asked while the read of an existing manifest raises (the
\* fs wrapper forwards to itself): that frame is skipped, as is the frame of
\* a malformed manifest, and the cached package below is returned.
C17_Witness ==
    /\ last.op = "call"
    /\ ManifestOnDisk(FrameDir(PkgFile("noversion"))).state = "ok"
    /\ Unresolvable(FrameDir(PkgFile("noversion")))
    /\ resolveCurrentStack(<<PkgFile("noversion"), PkgFile("bar")>>, 0,
                           Machine(signals, packageCache, <<>>)).attr.name
          = <<"bar">>
    /\ resolveCurrentStack(<<PkgFile("broken"), PkgFile("bar"), AppFile>>, 0,
                           Machine(signals, packageCache, <<>>)).attr.name
          = <<"bar">>


\* C18: getSignals returns a snapshot copy. Changing a returned list never
\* changes the buffer or another returned list, and a signal appended to
\* the buffer later does not appear in a list returned earlier.
C18_SnapshotCopy ==
    [][ /\ last'.op = "list" =>
             /\ signals' = signals
             /\ \A k \in 1..Len(lists) :
                   ListContent(lists[k])' # ListContent(lists[k]) =>
                      \A k2 \in 1..Len(lists) \ {k} :
                         ListContent(lists[k2])' = ListContent(lists[k2])
        /\ last'.op = "call" =>
             \A k \in 1..Len(lists) :
                ListContent(lists[k])' = ListContent(lists[k])
        /\ last'.op = "getSignals" =>
             /\ signals' = signals
             /\ ListContentOf(lists'[Len(lists')], signals')
                   = [i \in 1..Len(signals) |-> i]
             /\ \A k \in 1..Len(lists) : lists'[k] = lists[k] ]_vars

\* Two lists were returned with a signal appended in between, and the
\* earlier one was changed by its holder: both lists and the buffer differ.
C18_Witness ==
    /\ Len(lists) = 2
    /\ Len(signals) = 2
    /\ lists[2].elems = <<1, 2>>
    /\ lists[1].elems = <<0>>
    /\ last.op = "list"

\* C19: a signal is read-only once constructed. No operation available to a
\* holder changes any of its fields, the fields of its metadata record
\* included: the content of a buffered signal stays as it was appended.
C19_SignalReadOnly ==
    [][ \A i \in 1..Len(signals) :
           i <= Len(signals') => signals'[i] = signals[i] ]_vars


\* The names a hook replaces, and whether all of them can be assigned.
HookTargets(h) ==
    CASE h = "envHook" -> {EnvName}
      [] h = "fsHook" -> FsNames
      [] h = "netHook" -> NetNames
      [] OTHER -> CpNames

HookCanInstall(h) == HookTargets(h) \cap frozen = {}

\* C20: a hook's failure is isolated. An init that finds no hooks installed
\* attempts env, fs, net and childProc in that order; a hook that fails is
\* listed in failed and does not prevent the others, which are installed
\* and listed in installed; success holds exactly when at least one hook
\* was installed; when no hook fails, installed lists all four.
C20_FailureIsolated ==
    [][ (~hooksInstalled /\ init) =>
          /\ last'.listed = SelectSeq(HookNames, HookCanInstall)
          /\ last'.failed
                = SelectSeq(HookNames, LAMBDA h : ~HookCanInstall(h))
          /\ last'.ok = (last'.listed # <<>>)
          /\ hooksInstalled' = last'.ok
          /\ (frozen = {}) => (last'.listed = HookNames)
          /\ <<envInstalled', fsInstalled', netInstalled', cpInstalled'>>
                = <<HookCanInstall("envHook"), HookCanInstall("fsHook"),
                    HookCanInstall("netHook"), HookCanInstall("childProcHook")>>
          /\ \A h \in Range(HookNames) :
                HookCanInstall(h) =>
                   \A n \in HookTargets(h) :
                      binding'[n].kind = "wrap" /\ binding'[n].gen = gen'
       ]_vars

\* An init in which one hook failed and the hooks after it were installed.
C20_Witness ==
    /\ last.op = "init"
    /\ last.ok
    /\ last.failed = <<"fsHook">>
    /\ last.listed = <<"envHook", "netHook", "childProcHook">>
    /\ binding["exec"].kind = "wrap"


\* The findings of a result with the given types.
FindingsTyped(result, types) ==
    SelectSeq(result.cryptoMining \o result.dataExfiltration
                 \o result.backdoors \o result.credentialTheft,
              LAMBDA f : f.type \in types)

MinerOrBackdoorTypes ==
    {"CRYPTO_MINER_PROCESS", "MINING_POOL_CONNECTION", "MINING_ENV_VAR",
     "REVERSE_SHELL", "REMOTE_ACCESS_TOOL", "SUSPICIOUS_PORT"}

ExfiltrationOrTheftTypes ==
    {"EXFILTRATION_SERVICE", "SENSITIVE_FILE_PLUS_HTTP", "SECRET_ENV_ACCESS",
     "CREDENTIAL_FILE_READ"}

\* C21: the summary's highestSeverity is CRITICAL if the result holds any
\* crypto-miner or backdoor finding; else HIGH if it holds any exfiltration
\* or credential-theft finding; else MEDIUM if it holds any finding; else
\* NONE; and totalThreats is the number of findings in the result.
C21_SummarySeverity ==
    last.op = "analyzePatterns" =>
        /\ threats.summary.totalThreats
              = Len(FindingsTyped(threats, MinerOrBackdoorTypes
                                              \cup ExfiltrationOrTheftTypes))
        /\ threats.summary.totalThreats
              = Len(threats.cryptoMining) + Len(threats.dataExfiltration)
                   + Len(threats.backdoors) + Len(threats.credentialTheft)
        /\ threats.summary.highestSeverity
              = (IF FindingsTyped(threats, MinerOrBackdoorTypes) # <<>>
                 THEN "CRITICAL"
                 ELSE IF FindingsTyped(threats, ExfiltrationOrTheftTypes)
                            # <<>>
                 THEN "HIGH"
                 ELSE IF threats.summary.totalThreats > 0 THEN "MEDIUM"
                 ELSE "NONE")

\* A result whose only findings are of severity HIGH and of the backdoor
\* category, labelled CRITICAL; the analyzer can also label HIGH and NONE.
C21_Witness ==
    /\ last.op = "analyzePatterns"
    /\ threats.summary.highestSeverity = "CRITICAL"
    /\ threats.summary.totalThreats = 2
    /\ threats.cryptoMining = <<>>
    /\ \A i \in 1..Len(threats.backdoors) :
          threats.backdoors[i].severity = "HIGH"
    /\ Len(threats.credentialTheft) = 1


AllDetectors ==
    [enabled |-> TRUE, detectCryptoMiners |-> TRUE,
     detectDataExfiltration |-> TRUE, detectBackdoors |-> TRUE]

\* C22: when a monitored package has read ~/.aws/credentials and later
\* issued an HTTP request, the pattern analyzer run on the buffer returns a
\* SENSITIVE_FILE_PLUS_HTTP finding of severity CRITICAL for that package,
\* and the summary's highest severity is CRITICAL.
C22_SensitiveFilePlusHttp ==
    \A i, j \in 1..Len(signals) :
       ( /\ i < j
         /\ signals[i].type = SignalTypeOf("readFileSync")
         /\ Includes(signals[i].detail, ".aws/credentials")
         /\ signals[j].type = SignalTypeOf("http.request")
         /\ signals[j].op = "http"
         /\ signals[j].package = signals[i].package )
       => \A r \in { analyzePatterns(signals, AllDetectors) } :
             /\ \E k \in 1..Len(r.dataExfiltration) :
                   /\ r.dataExfiltration[k].type = "SENSITIVE_FILE_PLUS_HTTP"
                   /\ r.dataExfiltration[k].severity = "CRITICAL"
                   /\ r.dataExfiltration[k].package = signals[i].package
             /\ r.summary.highestSeverity = "CRITICAL"


\* The properties of a section given as an object.
EntriesOf(c, section) ==
    IF Get(c, section).t = "object" THEN Get(c, section).entries ELSE <<>>

\* A threshold that is set, as a number.
IsSet(x) == x.t = "number"

\* The ways a configuration can be wrong that validation is to reject.
UnknownHookName(c) ==
    \E i \in 1..Len(EntriesOf(c, "hooks")) :
       EntriesOf(c, "hooks")[i].key
          \notin {"env", "fs", "net", "childProcess", "http"}

NonBooleanHookFlag(c) ==
    \E i \in 1..Len(EntriesOf(c, "hooks")) :
       EntriesOf(c, "hooks")[i].val.t # "boolean"

WeightKeyNotSignalType(c) ==
    \E i \in 1..Len(EntriesOf(c, "riskWeights")) :
       EntriesOf(c, "riskWeights")[i].key \notin DOMAIN DocumentedWeights

WeightOutsideRange(c) ==
    \E i \in 1..Len(EntriesOf(c, "riskWeights")) :
       \A n \in 0..100 : EntriesOf(c, "riskWeights")[i].val # Num(n)

ThresholdOrderViolated(c) ==
    LET th == Get(c, "thresholds")
        critical == Get(th, "critical")
        high == Get(th, "high")
        medium == Get(th, "medium") IN
    \/ IsSet(critical) /\ IsSet(high) /\ critical.v >= high.v
    \/ IsSet(high) /\ IsSet(medium) /\ high.v >= medium.v
    \/ IsSet(critical) /\ IsSet(medium) /\ critical.v >= medium.v

NonArrayList(c) ==
    \E l \in {"whitelist", "blacklist"} :
       Get(c, l) # Undefined /\ Get(c, l).t # "array"

NonPositiveMaxSignals(c) ==
    LET m == Get(Get(c, "performance"), "maxSignals") IN
    IsSet(m) /\ m.v <= 0

\* C23: validateConfig reports invalid, with a non-empty error list, for
\* every configuration that contains an unknown hook name, a non-boolean
\* hook flag, a riskWeights key that is not a signal type, a weight outside
\* [0,100], a threshold ordering violation, a whitelist or blacklist that is
\* not an array, or a non-positive maxSignals.
C23_ValidationRejects ==
    last.op = "validateConfig" =>
        ( ( \/ UnknownHookName(userConfig)
            \/ NonBooleanHookFlag(userConfig)
            \/ WeightKeyNotSignalType(userConfig)
            \/ WeightOutsideRange(userConfig)
            \/ ThresholdOrderViolated(userConfig)
            \/ NonArrayList(userConfig)
            \/ NonPositiveMaxSignals(userConfig) )
          => (~validation.valid /\ validation.errors # <<>>) )


\* The hook a configuration flag names, and the signal types it emits.
HookOfFlag(k) ==
    CASE k = "env" -> "envHook"
      [] k = "fs" -> "fsHook"
      [] k = "net" -> "netHook"
      [] OTHER -> "childProcHook"

TypesOfFlag(k) ==
    CASE k = "env" -> {"ENV_ACCESS"}
      [] k = "fs" -> {"FS_READ", "FS_WRITE"}
      [] k = "net" -> {"NET_CONNECT"}
      [] OTHER -> {"SHELL_EXEC"}

InstalledFlag(k) ==
    CASE k = "env" -> envInstalled
      [] k = "fs" -> fsInstalled
      [] k = "net" -> netInstalled
      [] OTHER -> cpInstalled

\* C24: each hook is toggled by the configuration. After init with a
\* configuration whose flag for a hook is false, none of that hook's
\* bindings is wrapped and no signal of that hook's types is in the buffer,
\* while the hooks whose flag is true are installed.
C24_HooksToggled ==
    phase = "initialised" =>
        \A k \in {"env", "fs", "net", "childProcess"} :
           IF Get(Get(userConfig, "hooks"), k) = Bool(FALSE)
           THEN /\ ~InstalledFlag(k)
                /\ \A n \in HookTargets(HookOfFlag(k)) :
                      binding[n].kind # "wrap"
                /\ \A i \in 1..Len(signals) :
                      signals[i].type \notin TypesOfFlag(k)
           ELSE InstalledFlag(k)


\* A word of a stored command that shows a credential or a piece of one.
ShowsSecret(w) ==
    \/ w.eq /\ w.valLen > 0 /\ w.val \in SecretValues
    \/ ~w.eq /\ w.flag \in SecretValues

ShellSignals == SelectSeq(signals, LAMBDA s : s.type = "SHELL_EXEC")

\* C25: for every call to one of the seven wrapped child_process functions
\* whose command holds --password=X, --token=X, --api-key=X, --secret=X or
\* <W>_KEY=X, <W>_TOKEN=X, <W>_SECRET=X, the command stored in the ShellExec
\* signal contains no part of X.
C25_CommandHidesSecret ==
    \A i \in DOMAIN ShellSignals :
        \A k \in DOMAIN ShellSignals[i].detail :
            ~ShowsSecret(ShellSignals[i].detail[k])


\* The signals a call appended to the buffer.
Appended(r) == SubSeq(r.sigs, Len(signals) + 1, Len(r.sigs))

EnvOps == {"get", "set", "has"}

\* C26: with the env hook installed, every read, write and membership test
\* of a key K on process.env by code of package bar appends an ENV_ACCESS
\* signal whose variable is K, and the signals are the same whatever the
\* value of K is.
C26_EnvAccessRecorded ==
    envInstalled =>
        \A op \in EnvOps, v1 \in EnvValues, v2 \in EnvValues :
            \A r1 \in { CallResult("bar", EnvName, op, EnvAccess("FOO", v1),
                                   "module", FALSE) },
               r2 \in { CallResult("bar", EnvName, op, EnvAccess("FOO", v2),
                                   "module", FALSE) } :
                /\ r1.sigs = r2.sigs
                /\ SubSeq(r1.sigs, 1, Len(signals)) = signals
                /\ \E i \in DOMAIN Appended(r1) :
                      /\ Appended(r1)[i].type = "ENV_ACCESS"
                      /\ Appended(r1)[i].detail = "FOO"


\* C27: a monitored call http.request("http://192.168.1.100:8080/x") by
\* package bar appends an HTTP_REQUEST signal whose metadata has host
\* 192.168.1.100 and port 8080, suspicious.isIpAddress and
\* suspicious.nonStandardPort true, and the indicators "Direct IP request"
\* and "Non-standard port: 8080".
C27_IpRequestFlagged ==
    binding["http.request"].kind = "wrap" =>
        \A r \in { CallResult("bar", "http.request", "call", IpUrl, "module",
                              FALSE) },
           md \in { RequestMetadata(requestInfo(IpUrl, FALSE)) } :
            /\ \E i \in DOMAIN Appended(r) :
                  /\ Appended(r)[i].type = "HTTP_REQUEST"
                  /\ Appended(r)[i].detail = md
            /\ md.host = "192.168.1.100"
            /\ md.port = 8080
            /\ md.suspicious.isIpAddress
            /\ md.suspicious.nonStandardPort
            /\ \E k \in DOMAIN md.suspicious.indicators :
                  md.suspicious.indicators[k] = Indicator("Direct IP request", 0)
            /\ \E k \in DOMAIN md.suspicious.indicators :
                  md.suspicious.indicators[k]
                      = Indicator("Non-standard port", 8080)


\* The entries of the sanitized metadata that carry key.
EntriesFor(metadata, key) ==
    SelectSeq(metadata, LAMBDA e : e.key = key)

\* What the report shows of signal s.
Projected(out, s) ==
    /\ DOMAIN out = {"timestamp", "type", "package", "version", "metadata"}
    /\ out.type = s.type /\ out.package = s.package
    /\ out.version = s.version /\ out.timestamp = s.timestamp
    /\ \A k \in DOMAIN out.metadata :
          out.metadata[k].key \in Range(allowedFields)
    /\ \A f \in Range(allowedFields) :
          LET v == MetaGet(s.metadata, f) IN
          IF ~s.metadata.isObject \/ v.t = "undefined"
          THEN EntriesFor(out.metadata, f) = <<>>
          ELSE /\ Len(EntriesFor(out.metadata, f)) = 1
               /\ EntriesFor(out.metadata, f)[1].val =
                     IF v.t = "string" /\ v.len > 500
                     THEN [v EXCEPT !.len = 500, !.truncated = TRUE]
                     ELSE v

\* C28: in the JSON report every listed signal's metadata has only keys
\* from variable, path, operation, host, port, protocol, command; other
\* keys and the stack are dropped; a string longer than 500 characters is
\* cut to its first 500 followed by the truncation marker; exactly the
\* attributed signals are listed, in buffer order.
C28_ReportProjection ==
    report # NoReport =>
        LET attributed == SelectSeq(signals, LAMBDA s : s.package # <<>>) IN
        /\ Len(report.signals) = Len(attributed)
        /\ \A i \in DOMAIN attributed :
              Projected(report.signals[i], attributed[i])

\* A report of a first-party signal and of a signal with a long command and
\* one with a key that is not allowed.
C28_Witness ==
    /\ report # NoReport
    /\ Len(report.signals) < Len(signals)
    /\ \E i \in DOMAIN signals :
          /\ signals[i].package # <<>>
          /\ signals[i].metadata.isObject
          /\ \E k \in DOMAIN signals[i].metadata.entries :
                \/ signals[i].metadata.entries[k].key
                      \notin Range(allowedFields)
                \/ signals[i].metadata.entries[k].val.len > 500


IsPrefixOf(s, t) == Len(s) <= Len(t) /\ SubSeq(t, 1, Len(s)) = s

\* Every signal of the call was in the buffer when the platform function
\* was invoked.
EmitsBeforeForward(r) ==
    \A i \in DOMAIN TopForwards(r) : TopForwards(r)[i].seen = Len(r.sigs)

\* C29: every wrapper appends its signal before it invokes the original,
\* and every step other than teardown leaves the signals already in the
\* buffer in place and in order, adding new ones only at the end.
C29_AppendOnlyInOrder ==
    /\ [](\A caller \in Callers, name \in CallNames :
            \A op \in OpsOf(name), arg \in ArgsOf(name) :
                \A r \in { CallResult(caller, name, op, arg, "module",
                                       FALSE) } :
                    /\ EmitsBeforeForward(r)
                    /\ IsPrefixOf(signals, r.sigs))
    /\ [][last'.op # "teardown" => IsPrefixOf(signals, signals')]_vars

\* Package bar's call added a signal behind the ones of earlier calls.
C29_Witness ==
    /\ hooksInstalled
    /\ last.op = "call"
    /\ Len(signals) >= 2
    /\ signals[Len(signals)].type = "SHELL_EXEC"
    /\ signals[1].type # "SHELL_EXEC"


\* Attribution of a frame of a file in package directory dir, in the
\* current state.
AttributionIn(dir) ==
    resolveCurrentStack(<<dir \o <<"index.js">>>>, 0,
                        Machine(signals, packageCache, <<>>))

C31_NoStacking ==
    (hooksInstalled /\ frozen = {} /\ BarDir \in DOMAIN packageCache) =>
        \A name \in {"readFileSync", "exec", "net.connect", EnvName} :
            \A r \in { CallResult("bar", name, ActOp(name),
                                  CHOOSE a \in ArgsOf(name) :
                                     ReachesAttribution(
                                        IF name = EnvName THEN "env"
                                        ELSE "cp", a)
                                     /\ (name \in FsNames => a = "/tmp/x")
                                     /\ (name = "net.connect"
                                            => parseNetArgs(a).ok),
                                  "module", FALSE) } :
                Len(Appended(r)) = 1


\* The effective thresholds of a configuration are strictly ordered.
ThresholdsOrdered(cfg) ==
    LET t == Get(cfg, "thresholds") IN
    /\ Get(t, "critical").t = "number"
    /\ Get(t, "high").t = "number"
    /\ Get(t, "medium").t = "number"
    /\ Get(t, "critical").v < Get(t, "high").v
    /\ Get(t, "high").v < Get(t, "medium").v

\* C32: every configuration a loader returns has critical < high < medium
\* on its merged thresholds, also when the user overrides only some of them.
C32_ThresholdsOrdered ==
    (loaded.op # "none" /\ loaded.result.threw = "") =>
        ThresholdsOrdered(loaded.result.config)


\* What the last loadConfig call read before validating it.
LoadedContent ==
    CASE loaded.source.kind = "path" ->
           loadConfigFile(loaded.source.file, userConfig)
      [] loaded.source.kind = "search" ->
           [threw |-> "",
            value |-> IF loaded.source.found # "" THEN userConfig
                      ELSE Obj(<<>>)]
      [] OTHER -> [threw |-> "none", value |-> Undefined]

\* C34: when the configuration loadConfig has loaded fails validation, the
\* call does not raise, returns the default configuration, and hands the
\* caller the list of validation errors with it.
C34_ErrorsAlongsideDefault ==
    (/\ loaded.op = "loadConfig"
     /\ LoadedContent.threw = ""
     /\ ~validateConfig(LoadedContent.value).valid) =>
        /\ loaded.result.threw = ""
        /\ loaded.result.config = DEFAULT_CONFIG
        /\ loaded.result.errors = validateConfig(LoadedContent.value).errors


\* C37: the default configuration passes validateConfig and a merged
\* configuration passes it again, so loadConfigFromObject accepts its own
\* output.
C37_MergedConfigValid ==
    (loaded.op = "loadConfigFromObject" /\ loaded.result.threw = "") =>
        /\ validateConfig(DEFAULT_CONFIG).valid
        /\ validateConfig(loaded.result.config).valid
        /\ loadConfigFromObject(loaded.result.config).threw = ""


\* C39: a configuration file under node_modules is refused: loadConfigFile
\* raises for it whatever its extension, and discovery returns no file of a
\* working directory under node_modules.
C39_NodeModulesRefused ==
    /\ (loaded.source.kind = "path" /\ loaded.source.file.inNodeModules) =>
           /\ loadConfigFile(loaded.source.file, userConfig).threw # ""
           /\ loaded.result.threw # ""
    /\ (loaded.source.kind = "search" /\ loaded.source.cwdInNodeModules) =>
           loaded.source.found = ""


\* Neither the network hook nor the HTTP hook is installed.
BothUninstalled ==
    /\ ~netInstalled
    /\ \A n \in Range(HTTP_FUNCTIONS) : httpOrig[n] = Nil

\* C33: with netHook and httpHook both installed, uninstalling both, in
\* either order, leaves http.request and https.request bound to the
\* functions bound before either hook was installed.
C33_BothOrdersRestore ==
    (frozen = {} /\ BothUninstalled
     /\ last.op \in {"teardown", "httpUninstall"} /\ last.ok) =>
        \A n \in Range(HTTP_FUNCTIONS) : binding[n] = Orig(n)


\* The weight the configuration passed to init assigns to a signal type.
ConfiguredWeight(type) ==
    LET w == Get(Get(mergeConfig(userConfig), "riskWeights"), type) IN
    IF w.t = "number" THEN w.v ELSE 0

RECURSIVE ConfiguredScoreFrom(_, _, _)
\* The score of a package's signals under the configured weights.
ConfiguredScoreFrom(sigs, i, score) ==
    IF i > Len(sigs) THEN score
    ELSE IF score - ConfiguredWeight(sigs[i].type) < 0 THEN 0
    ELSE ConfiguredScoreFrom(sigs, i + 1,
                             score - ConfiguredWeight(sigs[i].type))

\* C35: getTrustScores deducts for every signal the weight the configuration
\* passed to init assigns to its type.
C35_ConfiguredWeightsUsed ==
    (last.op = "getTrustScores" /\ phase = "initialised") =>
        \A i \in 1..Len(scores) :
            scores[i].score =
                ConfiguredScoreFrom(
                    SelectSeq(signals,
                              LAMBDA s : /\ s.package # <<>>
                                         /\ ScoreKey(s) = scores[i].key),
                    1, 100)


\* The SENSITIVE_FILE_PLUS_HTTP findings for a package.
SensitivePlusHttpFor(findings, pkg) ==
    SelectSeq(findings, LAMBDA f : /\ f.type = "SENSITIVE_FILE_PLUS_HTTP"
                                   /\ f.package = pkg)

\* A signal recording an HTTP or HTTPS request.
IsRequestSignal(s) ==
    s.type = SignalTypeOf("http.request") /\ s.op \in {"http", "https"}

\* C36: detectDataExfiltration reports SENSITIVE_FILE_PLUS_HTTP, critical,
\* for a package exactly when the buffer holds a sensitive-file read and an
\* HTTP(S) request of that package, in either order, and then exactly once.
C36_SensitivePlusHttpIff ==
    \A r \in { detectDataExfiltration(signals) } :
       \A pkg \in { signals[i].package : i \in 1..Len(signals) } :
          LET found == SensitivePlusHttpFor(r, pkg)
              qualifies ==
                 /\ \E i \in 1..Len(signals) :
                       IsSensitiveRead(signals[i]) /\ signals[i].package = pkg
                 /\ \E j \in 1..Len(signals) :
                       IsRequestSignal(signals[j]) /\ signals[j].package = pkg
          IN /\ Len(found) = (IF qualifies THEN 1 ELSE 0)
             /\ \A k \in 1..Len(found) : found[k].severity = "CRITICAL"

\* The highest severity among findings: CRITICAL over HIGH over MEDIUM.
MaxSeverity(findings) ==
    IF \E i \in 1..Len(findings) : findings[i].severity = "CRITICAL"
    THEN "CRITICAL"
    ELSE IF \E i \in 1..Len(findings) : findings[i].severity = "HIGH"
    THEN "HIGH"
    ELSE IF Len(findings) > 0 THEN "MEDIUM"
    ELSE "NONE"

\* C38: the summary's highestSeverity is the maximum severity among the
\* findings analyzePatterns returns, and NONE exactly when there are none.
C38_SummaryIsMaxSeverity ==
    last.op = "analyzePatterns" =>
        LET all == threats.cryptoMining \o threats.dataExfiltration
                      \o threats.backdoors \o threats.credentialTheft IN
        /\ threats.summary.highestSeverity = MaxSeverity(all)
        /\ (threats.summary.highestSeverity = "NONE") <=> (all = <<>>)


\* The functions fsHook and netHook wrap.
FsNetTargets == Range(FS_FUNCTIONS) \cup Range(NET_FUNCTIONS)

\* C40: when a hook's install has failed partway (an assignment raised),
\* then after any later uninstall and install every wrapped function still
\* terminates with the true original's outcome, and a successful teardown
\* leaves every writable function bound to its original.
C40_PartialInstallRecovers ==
    (frozen \cap FsNetTargets # {}) =>
        /\ \A name \in {"readFileSync", "net.connect"} :
              binding[name].kind = "wrap" =>
                 \A arg \in ArgsOf(name) :
                    \A r \in { CallResult("app", name, "call", arg, "module",
                                          FALSE) } :
                       r.res = OrigOutcome(name, arg)
        /\ (last.op = "teardown" /\ last.ok) =>
              \A name \in FsNetTargets \ frozen : binding[name] = Orig(name)

====
